---- MODULE Spec2Model ----
(***************************************************************************)
(* ReactAdminTemplate: the Redux data slices (files, users, maps), the     *)
(* createAsyncThunk life cycle of their CRUD thunks, the pages that        *)
(* dispatch them, and the mock Remote Store the thunks talk to.            *)
(*                                                                         *)
(* One thunk call is three steps: the page dispatches it (the pending      *)
(* reducer runs and the HTTP request leaves), the Remote Store handles the *)
(* request (or the network drops it), and the thunk settles (the payload   *)
(* creator returns and the fulfilled / rejected reducer runs).             *)
(***************************************************************************)
EXTENDS Integers, Sequences, FiniteSets, TLC

VARIABLES
    token,     \* state.auth.token, read by every thunk when it starts
    auth,      \* state.auth   : [user, loading, error]
    route,     \* the page the router shows
    files,     \* state.files  : [list, loading, saving, error]
    users,     \* state.users  : [list, loading, saving, error]
    maps,      \* state.maps   : [markers, geoData, customItems, ...Loading, error]
    page,      \* useState of the page shown (FileManager2, CustomMap)
    store,     \* Remote Store : [files, users, presets, shapes] and the
               \* Auth Gate's clock, now (hours)
    net,       \* thunk calls in flight, in dispatch order
    dispatched,\* number of thunk calls dispatched so far
    assigned,  \* history: ids the Remote Store has handed out, per collection
    last       \* history: the step taken last

vars == <<token, auth, route, files, users, maps, page, store, net, dispatched, assigned, last>>

----------------------------------------------------------------------------
(* Bounds *)

MaxInflight == 2      \* thunk calls in flight at once
MaxOps      == 3      \* thunk calls dispatched per behaviour

----------------------------------------------------------------------------
(* JavaScript values *)

Null      == "null"
Undefined == "undefined"

\* `{ ...o, ...n }`
Spread(o, n) ==
    [k \in (DOMAIN o) \cup (DOMAIN n) |-> IF k \in DOMAIN n THEN n[k] ELSE o[k]]

\* `const { k, ...rest } = o`
Omit(o, k) == [f \in (DOMAIN o) \ {k} |-> o[f]]

\* Array.prototype.findIndex on the id: 0-based, -1 when nothing matches
RECURSIVE findIndexFrom(_, _, _)
findIndexFrom(list, id, i) ==
    IF i > Len(list) THEN -1
    ELSE IF list[i].id = id THEN i - 1
    ELSE findIndexFrom(list, id, i + 1)

findIndex(list, id) == findIndexFrom(list, id, 1)

\* list.filter((x) => x.id !== id)
RECURSIVE filterOutId(_, _)
filterOutId(list, id) ==
    IF list = <<>> THEN <<>>
    ELSE IF Head(list).id # id
         THEN <<Head(list)>> \o filterOutId(Tail(list), id)
         ELSE filterOutId(Tail(list), id)

\* list[idx] = v   (idx is 0-based)
setAt(list, idx, v) == [list EXCEPT ![idx + 1] = v]

Ids(list) == {list[i].id : i \in 1..Len(list)}

----------------------------------------------------------------------------
(* features/files/filesSlice.ts : reducers.  An action is                  *)
(* [type, payload, arg]; `arg` is action.meta.arg.                         *)

filesInitialState == [list |-> <<>>, loading |-> FALSE, saving |-> FALSE, error |-> Null]

\* The slice FileManager2 selects from and dispatches to also holds
\* lockedFolders: string[] and the reducer toggleFolderLock(folderName),
\* which "adds to / removes from lockedFolders" (README, `files` slice).
filesSliceState == Spread(filesInitialState, [lockedFolders |-> <<>>])

\* Array.prototype.includes
arrayIncludes(arr, v) == \E i \in 1..Len(arr) : arr[i] = v

\* variant: a folder once locked stays locked
toggleFolderLock_addsOnly(s, a) ==
    IF arrayIncludes(s.lockedFolders, a.payload) THEN s
    ELSE [s EXCEPT !.lockedFolders = Append(@, a.payload)]

toggleFolderLock(s, a) ==
    IF arrayIncludes(s.lockedFolders, a.payload)
    THEN [s EXCEPT !.lockedFolders = SelectSeq(@, LAMBDA n : n # a.payload)]
    ELSE [s EXCEPT !.lockedFolders = Append(@, a.payload)]

fetchFiles_pending(s)      == [s EXCEPT !.loading = TRUE, !.error = Null]
fetchFiles_fulfilled(s, a) == [s EXCEPT !.loading = FALSE, !.list = a.payload]
fetchFiles_rejected(s, a)  == [s EXCEPT !.loading = FALSE, !.error = a.payload]

\* variant: a record the cache does not list is inserted
fetchFile_fulfilled_inserts(s, a) ==
    LET idx == findIndex(s.list, a.payload.id)
    IN  IF idx # -1 THEN [s EXCEPT !.list = setAt(s.list, idx, a.payload)]
        ELSE [s EXCEPT !.list = Append(s.list, a.payload)]

fetchFile_fulfilled(s, a) ==
    LET idx == findIndex(s.list, a.payload.id)
    IN  IF idx # -1 THEN [s EXCEPT !.list = setAt(s.list, idx, a.payload)] ELSE s

\* variant: the record is shown before the server confirms it
uploadFile_pending_optimistic(s) ==
    [s EXCEPT !.saving = TRUE, !.error = Null,
              !.list = Append(s.list, [id |-> 0, folder |-> <<>>])]

uploadFile_pending(s)      == [s EXCEPT !.saving = TRUE, !.error = Null]

uploadFile_fulfilled(s, a) == [s EXCEPT !.saving = FALSE, !.list = Append(s.list, a.payload)]
uploadFile_rejected(s, a)  == [s EXCEPT !.saving = FALSE, !.error = a.payload]

updateFile_pending(s)      == [s EXCEPT !.saving = TRUE, !.error = Null]

\* variant: a lock follows the record to its new folder name
updateFile_fulfilled_carriesLock(s, a) ==
    LET idx == findIndex(s.list, a.payload.id)
    IN  IF idx # -1
        THEN [s EXCEPT !.saving = FALSE,
                       !.list = setAt(s.list, idx, Spread(s.list[idx + 1], a.payload)),
                       !.lockedFolders =
                           [i \in 1..Len(@) |->
                               IF @[i] = s.list[idx + 1].folder THEN a.payload.folder
                               ELSE @[i]]]
        ELSE [s EXCEPT !.saving = FALSE]

updateFile_fulfilled(s, a) ==
    LET idx == findIndex(s.list, a.payload.id)
    IN  IF idx # -1
        THEN [s EXCEPT !.saving = FALSE,
                       !.list = setAt(s.list, idx, Spread(s.list[idx + 1], a.payload))]
        ELSE [s EXCEPT !.saving = FALSE]
updateFile_rejected(s, a)  == [s EXCEPT !.saving = FALSE, !.error = a.payload]

deleteFile_pending(s)      == [s EXCEPT !.saving = TRUE, !.error = Null]

\* variant: the filter keeps the deleted record instead of the others
deleteFile_fulfilled_inverted(s, a) ==
    [s EXCEPT !.saving = FALSE,
              !.list = SelectSeq(s.list, LAMBDA f : f.id = a.payload)]

deleteFile_fulfilled(s, a) == [s EXCEPT !.saving = FALSE, !.list = filterOutId(s.list, a.payload)]

\* variant: the card is removed although the delete failed
deleteFile_rejected_removes(s, a) ==
    [s EXCEPT !.saving = FALSE, !.error = a.payload, !.list = filterOutId(s.list, a.arg)]

deleteFile_rejected(s, a)  == [s EXCEPT !.saving = FALSE, !.error = a.payload]

\* an action no case matches (fetchFile pending / rejected, other slices'
\* actions) leaves the slice as it is
filesReducer(s, a) ==
    CASE a.type = "files/fetchFiles/pending"   -> fetchFiles_pending(s)
      [] a.type = "files/fetchFiles/fulfilled" -> fetchFiles_fulfilled(s, a)
      [] a.type = "files/fetchFiles/rejected"  -> fetchFiles_rejected(s, a)
      [] a.type = "files/fetchFile/fulfilled"  -> fetchFile_fulfilled(s, a)
      [] a.type = "files/uploadFile/pending"   -> uploadFile_pending(s)
      [] a.type = "files/uploadFile/fulfilled" -> uploadFile_fulfilled(s, a)
      [] a.type = "files/uploadFile/rejected"  -> uploadFile_rejected(s, a)
      [] a.type = "files/updateFile/pending"   -> updateFile_pending(s)
      [] a.type = "files/updateFile/fulfilled" -> updateFile_fulfilled(s, a)
      [] a.type = "files/updateFile/rejected"  -> updateFile_rejected(s, a)
      [] a.type = "files/deleteFile/pending"   -> deleteFile_pending(s)
      [] a.type = "files/deleteFile/fulfilled" -> deleteFile_fulfilled(s, a)
      [] a.type = "files/deleteFile/rejected"  -> deleteFile_rejected(s, a)
      [] a.type = "files/toggleFolderLock"     -> toggleFolderLock(s, a)
      [] OTHER -> s

----------------------------------------------------------------------------
(* features/users/usersSlice.ts : reducers *)

usersInitialState == [list |-> <<>>, loading |-> FALSE, saving |-> FALSE, error |-> Null]

fetchUsers_pending(s)      == [s EXCEPT !.loading = TRUE, !.error = Null]
fetchUsers_fulfilled(s, a) == [s EXCEPT !.loading = FALSE, !.list = a.payload]
fetchUsers_rejected(s, a)  == [s EXCEPT !.loading = FALSE, !.error = a.payload]

createUser_pending(s)      == [s EXCEPT !.saving = TRUE, !.error = Null]
createUser_fulfilled(s, a) == [s EXCEPT !.saving = FALSE, !.list = Append(s.list, a.payload)]
createUser_rejected(s, a)  == [s EXCEPT !.saving = FALSE, !.error = a.payload]

updateUser_pending(s)      == [s EXCEPT !.saving = TRUE, !.error = Null]

\* variant: the returned record is put at the end of the list
updateUser_fulfilled_atEnd(s, a) ==
    LET i == findIndex(s.list, a.payload.id)
    IN  IF i >= 0
        THEN [s EXCEPT !.saving = FALSE,
                       !.list = Append(filterOutId(s.list, a.payload.id), a.payload)]
        ELSE [s EXCEPT !.saving = FALSE]

updateUser_fulfilled(s, a) ==
    LET i == findIndex(s.list, a.payload.id)
    IN  IF i >= 0
        THEN [s EXCEPT !.saving = FALSE, !.list = setAt(s.list, i, a.payload)]
        ELSE [s EXCEPT !.saving = FALSE]
updateUser_rejected(s, a)  == [s EXCEPT !.saving = FALSE, !.error = a.payload]

deleteUser_pending(s)      == [s EXCEPT !.saving = TRUE, !.error = Null]

\* variant: the row stays in the table
deleteUser_fulfilled_keepsRow(s, a) == [s EXCEPT !.saving = FALSE]

deleteUser_fulfilled(s, a) == [s EXCEPT !.saving = FALSE, !.list = filterOutId(s.list, a.payload)]
deleteUser_rejected(s, a)  == [s EXCEPT !.saving = FALSE, !.error = a.payload]

usersReducer(s, a) ==
    CASE a.type = "users/fetchUsers/pending"   -> fetchUsers_pending(s)
      [] a.type = "users/fetchUsers/fulfilled" -> fetchUsers_fulfilled(s, a)
      [] a.type = "users/fetchUsers/rejected"  -> fetchUsers_rejected(s, a)
      [] a.type = "users/createUser/pending"   -> createUser_pending(s)
      [] a.type = "users/createUser/fulfilled" -> createUser_fulfilled(s, a)
      [] a.type = "users/createUser/rejected"  -> createUser_rejected(s, a)
      [] a.type = "users/updateUser/pending"   -> updateUser_pending(s)
      [] a.type = "users/updateUser/fulfilled" -> updateUser_fulfilled(s, a)
      [] a.type = "users/updateUser/rejected"  -> updateUser_rejected(s, a)
      [] a.type = "users/deleteUser/pending"   -> deleteUser_pending(s)
      [] a.type = "users/deleteUser/fulfilled" -> deleteUser_fulfilled(s, a)
      [] a.type = "users/deleteUser/rejected"  -> deleteUser_rejected(s, a)
      [] OTHER -> s

----------------------------------------------------------------------------
(* features/maps/mapsSlice.ts : reducers of the marker, region and preset  *)
(* thunks                                                                  *)

mapsInitialState ==
    [markers |-> <<>>, geoData |-> Null, customItems |-> <<>>,
     drawnShapes |-> <<>>, savedShapes |-> <<>>,
     markersLoading |-> FALSE, geoLoading |-> FALSE, customLoading |-> FALSE,
     shapesSaving |-> FALSE, shapesLoading |-> FALSE,
     error |-> Null]

addDrawnShape(s, a) == [s EXCEPT !.drawnShapes = Append(@, a.payload)]

updateDrawnShape(s, a) ==
    LET i == findIndex(s.drawnShapes, a.payload.id)
    IN  IF i >= 0
        THEN [s EXCEPT !.drawnShapes = setAt(@, i, Spread(s.drawnShapes[i + 1], a.payload))]
        ELSE s

removeDrawnShape(s, a) == [s EXCEPT !.drawnShapes = filterOutId(@, a.payload)]

clearDrawnShapes(s) == [s EXCEPT !.drawnShapes = <<>>]

fetchHistoryMarkers_pending(s)      == [s EXCEPT !.markersLoading = TRUE, !.error = Null]
fetchHistoryMarkers_fulfilled(s, a) == [s EXCEPT !.markersLoading = FALSE, !.markers = a.payload]
fetchHistoryMarkers_rejected(s, a)  == [s EXCEPT !.markersLoading = FALSE, !.error = a.payload]

fetchGeoJson_pending(s)      == [s EXCEPT !.geoLoading = TRUE, !.error = Null]
fetchGeoJson_fulfilled(s, a) == [s EXCEPT !.geoLoading = FALSE, !.geoData = a.payload]
fetchGeoJson_rejected(s, a)  == [s EXCEPT !.geoLoading = FALSE, !.error = a.payload]

fetchCustomMap_pending(s)      == [s EXCEPT !.customLoading = TRUE, !.error = Null]
fetchCustomMap_fulfilled(s, a) == [s EXCEPT !.customLoading = FALSE, !.customItems = a.payload]
fetchCustomMap_rejected(s, a)  == [s EXCEPT !.customLoading = FALSE, !.error = a.payload]

addPreset_fulfilled(s, a) == [s EXCEPT !.customItems = Append(s.customItems, a.payload)]

updatePreset_fulfilled(s, a) ==
    LET i == findIndex(s.customItems, a.payload.id)
    IN  IF i >= 0 THEN [s EXCEPT !.customItems = setAt(s.customItems, i, a.payload)] ELSE s

deletePreset_fulfilled(s, a) ==
    [s EXCEPT !.customItems = filterOutId(s.customItems, a.payload)]

saveShapes_pending(s)      == [s EXCEPT !.shapesSaving = TRUE, !.error = Null]
saveShapes_fulfilled(s, a) == [s EXCEPT !.shapesSaving = FALSE, !.savedShapes = a.payload]
\* variant: a failed save empties the buffer as well
saveShapes_rejected_clears(s, a) ==
    [s EXCEPT !.shapesSaving = FALSE, !.error = a.payload, !.drawnShapes = <<>>]
saveShapes_rejected(s, a)  == [s EXCEPT !.shapesSaving = FALSE, !.error = a.payload]

fetchShapes_pending(s)      == [s EXCEPT !.shapesLoading = TRUE, !.error = Null]
\* variant: a list already cached is kept
fetchShapes_fulfilled_firstWins(s, a) ==
    IF s.savedShapes # <<>> THEN [s EXCEPT !.shapesLoading = FALSE]
    ELSE [s EXCEPT !.shapesLoading = FALSE, !.savedShapes = a.payload]
fetchShapes_fulfilled(s, a) == [s EXCEPT !.shapesLoading = FALSE, !.savedShapes = a.payload]
fetchShapes_rejected(s, a)  == [s EXCEPT !.shapesLoading = FALSE, !.error = a.payload]

updateSavedShape_fulfilled(s, a) ==
    LET i == findIndex(s.savedShapes, a.payload.id)
    IN  IF i >= 0 THEN [s EXCEPT !.savedShapes = setAt(s.savedShapes, i, a.payload)] ELSE s

deleteSavedShape_fulfilled(s, a) ==
    [s EXCEPT !.savedShapes = filterOutId(s.savedShapes, a.payload)]

mapsReducer(s, a) ==
    CASE a.type = "maps/fetchHistoryMarkers/pending"   -> fetchHistoryMarkers_pending(s)
      [] a.type = "maps/fetchHistoryMarkers/fulfilled" -> fetchHistoryMarkers_fulfilled(s, a)
      [] a.type = "maps/fetchHistoryMarkers/rejected"  -> fetchHistoryMarkers_rejected(s, a)
      [] a.type = "maps/fetchGeoJson/pending"          -> fetchGeoJson_pending(s)
      [] a.type = "maps/fetchGeoJson/fulfilled"        -> fetchGeoJson_fulfilled(s, a)
      [] a.type = "maps/fetchGeoJson/rejected"         -> fetchGeoJson_rejected(s, a)
      [] a.type = "maps/fetchCustomMap/pending"        -> fetchCustomMap_pending(s)
      [] a.type = "maps/fetchCustomMap/fulfilled"      -> fetchCustomMap_fulfilled(s, a)
      [] a.type = "maps/fetchCustomMap/rejected"       -> fetchCustomMap_rejected(s, a)
      [] a.type = "maps/addPreset/fulfilled"           -> addPreset_fulfilled(s, a)
      [] a.type = "maps/updatePreset/fulfilled"        -> updatePreset_fulfilled(s, a)
      [] a.type = "maps/deletePreset/fulfilled"        -> deletePreset_fulfilled(s, a)
      [] a.type = "maps/addDrawnShape"                 -> addDrawnShape(s, a)
      [] a.type = "maps/updateDrawnShape"              -> updateDrawnShape(s, a)
      [] a.type = "maps/removeDrawnShape"              -> removeDrawnShape(s, a)
      [] a.type = "maps/clearDrawnShapes"              -> clearDrawnShapes(s)
      [] a.type = "maps/saveShapes/pending"            -> saveShapes_pending(s)
      [] a.type = "maps/saveShapes/fulfilled"          -> saveShapes_fulfilled(s, a)
      [] a.type = "maps/saveShapes/rejected"           -> saveShapes_rejected(s, a)
      [] a.type = "maps/fetchShapes/pending"           -> fetchShapes_pending(s)
      [] a.type = "maps/fetchShapes/fulfilled"         -> fetchShapes_fulfilled(s, a)
      [] a.type = "maps/fetchShapes/rejected"          -> fetchShapes_rejected(s, a)
      [] a.type = "maps/updateSavedShape/fulfilled"    -> updateSavedShape_fulfilled(s, a)
      [] a.type = "maps/deleteSavedShape/fulfilled"    -> deleteSavedShape_fulfilled(s, a)
      [] OTHER -> s

----------------------------------------------------------------------------
(* features/auth/authSlice.ts.  state.auth.token is the variable token (at
   start: localStorage.getItem('token')); the rest of the slice is auth. *)

\* state.auth.user = null: no user record (no user has id 0)
NoUser == [id |-> 0]

authInitialState == [user |-> NoUser, loading |-> FALSE, error |-> Null]

\* reducers.signOut: token and user cleared, localStorage's 'token' removed
signOut(s) == [s EXCEPT !.token = [sub |-> 0, exp |-> 0, sig |-> "none"], !.user = NoUser]

signIn_pending(s) == [s EXCEPT !.loading = TRUE, !.error = Null]
signIn_fulfilled(s, a) ==
    [s EXCEPT !.loading = FALSE, !.token = a.payload.access_token, !.user = a.payload.user]
\* variant: a failed login signs the client out
signIn_rejected_clearsToken(s, a) ==
    [s EXCEPT !.loading = FALSE, !.error = a.payload, !.token = [sub |-> 0, exp |-> 0, sig |-> "none"]]
signIn_rejected(s, a) == [s EXCEPT !.loading = FALSE, !.error = a.payload]

fetchCurrentUser_fulfilled(s, a) == [s EXCEPT !.user = a.payload]

updateProfile_fulfilled(s, a) == [s EXCEPT !.user = a.payload]

\* reducers.setUser
setUser(s, a) == [s EXCEPT !.user = a.payload]

authReducer(s, a) ==
    CASE a.type = "auth/signIn/pending"             -> signIn_pending(s)
      [] a.type = "auth/signIn/fulfilled"           -> signIn_fulfilled(s, a)
      [] a.type = "auth/signIn/rejected"            -> signIn_rejected(s, a)
      [] a.type = "auth/fetchCurrentUser/fulfilled" -> fetchCurrentUser_fulfilled(s, a)
      [] a.type = "auth/updateProfile/fulfilled"    -> updateProfile_fulfilled(s, a)
      [] a.type = "auth/signOut"                    -> signOut(s)
      [] a.type = "auth/setUser"                    -> setUser(s, a)
      [] OTHER -> s

----------------------------------------------------------------------------
(* Remote Store and Auth Gate (backend/routes/*.py): in-memory collections *)
(* with list / get / create / update / delete, every call behind the       *)
(* bearer-token check.                                                     *)

\* A token is what its signed payload says: the user id, the expiry (hours
\* on the Auth Gate's clock) and the key it was signed with.
Secret == "HS256:secret"

Token(sub, exp, sig) == [sub |-> sub, exp |-> exp, sig |-> sig]

\* tokens are valid for 24 hours
TokenLife == 24

\* state.auth.token = null: the header reads "Bearer null", which is no
\* signed token
NoToken      == Token(0, 0, "none")
\* issued to user 1 at hour 0; issued to user 1 and run out by hour 0;
\* signed with another key
ValidToken   == Token(1, TokenLife, Secret)
ExpiredToken == Token(1, 0, Secret)
ForgedToken  == Token(1, 2 * TokenLife, "HS256:other")

\* variant: the expiry is not looked at
authorize_ignoresExpiry(st, tok) == tok.sig = Secret

\* authorize(token): signature and expiry
authorize(st, tok) == tok.sig = Secret /\ tok.exp > st.now

SetMax(S) == CHOOSE m \in S : \A x \in S : x <= m

\* create: max existing id + 1, or 1 if the collection is empty
nextId(coll) == IF coll = <<>> THEN 1 ELSE SetMax(Ids(coll)) + 1

\* what a list / create / update response shows of a stored record: a file
\* carries its content payload only in a single-item fetch
listView(c, rec) == IF c = "files" THEN Omit(rec, "content_base64") ELSE rec

storeList(c, coll) == [i \in 1..Len(coll) |-> listView(c, coll[i])]

\* what create keeps of the request body: the password is no User field
storedFields(c, body) ==
    IF c = "users" /\ "password" \in DOMAIN body THEN Omit(body, "password") ELSE body

HistoryMarkers == <<[id |-> 1, name |-> "London"], [id |-> 2, name |-> "Tokyo"]>>
\* the region FeatureCollection, as its JSON text
GeoJson        == "{\"type\":\"FeatureCollection\"}"

Response(status, data) == [status |-> status, data |-> data]
NoResponse == Response(-1, Null)

\* collection and verb of each endpoint a thunk calls
collectionOf(thunk) ==
    CASE thunk \in {"files/fetchFiles", "files/fetchFile", "files/uploadFile",
                    "files/updateFile", "files/deleteFile"}           -> "files"
      [] thunk \in {"users/fetchUsers", "users/createUser",
                    "users/updateUser", "users/deleteUser"}           -> "users"
      [] thunk \in {"maps/fetchCustomMap", "maps/addPreset",
                    "maps/updatePreset", "maps/deletePreset"}         -> "presets"
      [] thunk \in {"maps/fetchShapes", "maps/saveShapes",
                    "maps/updateSavedShape", "maps/deleteSavedShape"} -> "shapes"
      [] thunk \in {"auth/signIn", "auth/fetchCurrentUser",
                    "auth/updateProfile"}                             -> "auth"
      [] thunk = "maps/fetchHistoryMarkers"                           -> "markers"
      [] thunk = "maps/fetchGeoJson"                                  -> "geojson"

verbOf(thunk) ==
    CASE thunk \in {"files/fetchFiles", "users/fetchUsers", "maps/fetchCustomMap",
                    "maps/fetchHistoryMarkers", "maps/fetchGeoJson",
                    "maps/fetchShapes"}                               -> "list"
      [] thunk = "maps/saveShapes"                                    -> "append"
      [] thunk = "auth/signIn"                                        -> "login"
      [] thunk = "auth/fetchCurrentUser"                              -> "me"
      [] thunk = "auth/updateProfile"                                 -> "updateMe"
      [] thunk = "files/fetchFile"                                    -> "get"
      [] thunk \in {"files/uploadFile", "users/createUser", "maps/addPreset"}    -> "create"
      [] thunk \in {"files/updateFile", "users/updateUser", "maps/updatePreset",
                    "maps/updateSavedShape"}                          -> "update"
      [] thunk \in {"files/deleteFile", "users/deleteUser", "maps/deletePreset",
                    "maps/deleteSavedShape"}                          -> "delete"

\* the request body of a create / update: updateFile sends the payload
\* without its id, the others send the payload as it is
requestBody(thunk, arg) == IF thunk = "files/updateFile" THEN Omit(arg, "id") ELSE arg

\* the id in the path of a get / update / delete
pathId(thunk, arg) == IF verbOf(thunk) = "update" THEN arg.id ELSE arg

\* one request handled: the collections afterwards and the response
\* append(list): each incoming shape is given the next id and added after
\* the shapes already held
RECURSIVE appendShapes(_, _)
appendShapes(coll, list) ==
    IF list = <<>> THEN coll
    ELSE appendShapes(Append(coll, Spread(Head(list), [id |-> nextId(coll)])), Tail(list))

\* the fixed credential table of the Auth Gate
Credentials ==
    {[email |-> "admin@example.com",  password |-> "password123", id |-> 1],
     [email |-> "editor@example.com", password |-> "password123", id |-> 2]}

userWithId(st, id) ==
    LET idx == findIndex(st.users, id)
    IN  IF idx = -1 THEN Null ELSE st.users[idx + 1]

\* login(email, password): on a match a token for that user, good for
\* TokenLife hours from now
login(st, form) ==
    IF \E c \in Credentials : c.email = form.email /\ c.password = form.password
    THEN LET c == CHOOSE c \in Credentials :
                     c.email = form.email /\ c.password = form.password
         IN  Response(200, [access_token |-> Token(c.id, st.now + TokenLife, Secret),
                            token_type   |-> "bearer",
                            user         |-> userWithId(st, c.id)])
    ELSE Response(401, "Invalid credentials")

remoteStore(st, thunk, arg, tok) ==
    LET c    == collectionOf(thunk)
        verb == verbOf(thunk)
    IN
    IF verb = "login"
    THEN [store |-> st, res |-> login(st, arg)]
    ELSE IF ~authorize(st, tok)
    THEN [store |-> st, res |-> Response(401, "Invalid or expired token")]
    ELSE IF verb = "me"
    THEN [store |-> st,
          res   |-> IF findIndex(st.users, tok.sub) = -1 THEN Response(404, "User not found")
                    ELSE Response(200, userWithId(st, tok.sub))]
    ELSE IF verb = "updateMe"
    THEN LET idx == findIndex(st.users, tok.sub)
         IN  IF idx = -1 THEN [store |-> st, res |-> Response(404, "User not found")]
             ELSE LET rec == Spread(st.users[idx + 1], arg)
                  IN  [store |-> [st EXCEPT !.users = setAt(@, idx, rec)],
                       res   |-> Response(200, rec)]
    ELSE IF c = "markers" THEN [store |-> st, res |-> Response(200, HistoryMarkers)]
    ELSE IF c = "geojson" THEN [store |-> st, res |-> Response(200, GeoJson)]
    ELSE IF verb = "list"
    THEN [store |-> st, res |-> Response(200, storeList(c, st[c]))]
    ELSE IF verb = "append"
    THEN LET all == appendShapes(st[c], arg)
         IN  [store |-> [st EXCEPT ![c] = all], res |-> Response(200, all)]
    ELSE IF verb = "create"
    THEN LET rec == Spread([id |-> nextId(st[c])], storedFields(c, requestBody(thunk, arg)))
         IN  [store |-> [st EXCEPT ![c] = Append(@, rec)],
              res   |-> Response(200, listView(c, rec))]
    ELSE LET id  == pathId(thunk, arg)
             idx == findIndex(st[c], id)
         IN
         IF idx = -1
         THEN [store |-> st, res |-> Response(404, "Not found")]
         ELSE IF verb = "get"
         THEN [store |-> st, res |-> Response(200, st[c][idx + 1])]
         ELSE IF verb = "update"
         THEN LET rec == Spread(st[c][idx + 1], storedFields(c, requestBody(thunk, arg)))
              IN  [store |-> [st EXCEPT ![c] = setAt(@, idx, rec)],
                   res   |-> Response(200, listView(c, rec))]
         ELSE [store |-> [st EXCEPT ![c] = filterOutId(@, id)],
               res   |-> Response(200, [message |-> "deleted"])]

----------------------------------------------------------------------------
(* The thunks' payload creators: what the settled action carries.          *)

\* await res.text() of an error response: the JSON text of the body
responseText(res) ==
    CASE res.status = 401 -> "{\"detail\":\"Invalid or expired token\"}"
      [] res.status = 404 -> "{\"detail\":\"Not found\"}"

\* filesSlice thunks use fetch() with no try / catch: fetch() throwing (no
\* response) rejects the thunk without rejectWithValue, so action.payload is
\* undefined; a response that is not ok rejects with its body text
filesThunk(thunk, arg, res) ==
    IF res.status = 0 THEN [phase |-> "rejected", payload |-> Undefined]
    ELSE IF res.status # 200 THEN [phase |-> "rejected", payload |-> responseText(res)]
    ELSE IF thunk = "files/deleteFile" THEN [phase |-> "fulfilled", payload |-> arg]
    ELSE [phase |-> "fulfilled", payload |-> res.data]

\* the message after `??` in each axios thunk's catch block
fallbackMessage(thunk) ==
    CASE thunk = "users/fetchUsers"         -> "Failed to load users"
      [] thunk = "users/createUser"         -> "Failed to create user"
      [] thunk = "users/updateUser"         -> "Failed to update user"
      [] thunk = "users/deleteUser"         -> "Failed to delete user"
      [] thunk = "maps/fetchHistoryMarkers" -> "Failed to load history markers"
      [] thunk = "maps/fetchGeoJson"        -> "Failed to load GeoJSON data"
      [] thunk = "maps/fetchCustomMap"      -> "Failed to load custom map data"
      [] thunk = "maps/addPreset"           -> "Failed to add preset"
      [] thunk = "maps/updatePreset"        -> "Failed to update preset"
      [] thunk = "maps/deletePreset"        -> "Failed to delete preset"
      [] thunk = "maps/saveShapes"          -> "Failed to save shapes"
      [] thunk = "maps/fetchShapes"         -> "Failed to load saved shapes"
      [] thunk = "maps/updateSavedShape"    -> "Failed to update shape"
      [] thunk = "maps/deleteSavedShape"    -> "Failed to delete shape"
      [] thunk = "auth/updateProfile"       -> "Update failed"
      [] thunk = "auth/signIn"              -> "Login failed"
      [] thunk = "auth/fetchCurrentUser"    -> "Failed to fetch user"

\* usersSlice / mapsSlice thunks use axios inside try / catch:
\* rejectWithValue(err.response?.data?.detail ?? fallback)
axiosThunk(thunk, arg, res) ==
    IF res.status = 0 THEN [phase |-> "rejected", payload |-> fallbackMessage(thunk)]
    ELSE IF res.status # 200 THEN [phase |-> "rejected", payload |-> res.data]
    ELSE IF verbOf(thunk) = "delete" THEN [phase |-> "fulfilled", payload |-> arg]
    ELSE [phase |-> "fulfilled", payload |-> res.data]

payloadCreator(thunk, arg, res) ==
    IF collectionOf(thunk) = "files" THEN filesThunk(thunk, arg, res)
    ELSE axiosThunk(thunk, arg, res)

\* app/store.ts: every slice reducer sees every action
rootReducer(state, a) ==
    [files |-> filesReducer(state.files, a),
     users |-> usersReducer(state.users, a),
     maps  |-> mapsReducer(state.maps, a),
     auth  |-> authReducer(state.auth, a)]

----------------------------------------------------------------------------
(* Inputs and the initial state *)

SignInRoute    == "/signin"
LandingRoute   == "/"
DashboardRoute == "/dashboard"
AccountRoute   == "/account"
UsersRoute     == "/users"
FileManagerRoute == "/files"
CustomRoute  == "/maps/custom"
HistoryRoute == "/maps/history"
GeoRoute     == "/maps/geojson"

\* flattenRoutes(routes): the leaves of the route table, path and protected
routes ==
    {[path |-> LandingRoute,       protected |-> FALSE],
     [path |-> SignInRoute,        protected |-> FALSE],
     [path |-> DashboardRoute,     protected |-> TRUE],
     [path |-> AccountRoute,       protected |-> TRUE],
     [path |-> "/typography",      protected |-> TRUE],
     [path |-> "/charts/barchart", protected |-> TRUE],
     [path |-> "/charts/ridgeline", protected |-> TRUE],
     [path |-> UsersRoute,         protected |-> TRUE],
     [path |-> FileManagerRoute,   protected |-> TRUE],
     [path |-> HistoryRoute,       protected |-> TRUE],
     [path |-> GeoRoute,           protected |-> TRUE],
     [path |-> CustomRoute,        protected |-> TRUE]}

\* File Manager v2 is mounted at /files/files2 (README, Routing); the route
\* table above, of an earlier revision, has no route for it
FilesRoute == "/files/files2"

\* the two file manager pages
FilePages == {FileManagerRoute, FilesRoute}

\* the pages a behaviour starts on
Routes == {FileManagerRoute, FilesRoute, UsersRoute, CustomRoute, HistoryRoute, GeoRoute}

\* folder names are strings of UTF-16 code units: the Folder field is given
\* "" or "a"; the seed file is in "b"
FolderInputs == {<<>>, <<97>>}
Content      == "data:text/plain;base64,QQ=="

\* what the fields of the UserDialog other than Password hold at Save; the
\* Email field holds "b@x.io", "c@x.io" or "d@x" (UTF-16 code units)
UserForms   == {[name |-> "bob", email |-> <<98, 64, 120, 46, 105, 111>>, avatar_mode |-> "letter"],
                [name |-> "cy",  email |-> <<99, 64, 120, 46, 105, 111>>, avatar_mode |-> "letter"],
                [name |-> "dee", email |-> <<100, 64, 120>>,              avatar_mode |-> "letter"]}
PresetForms == {[name |-> "Pier"], [name |-> "Quay"]}

SeedStore ==
    [files   |-> <<[id |-> 1, folder |-> <<98>>, content_base64 |-> Content]>>,
     users   |-> <<[id |-> 1, name |-> "ann"]>>,
     presets |-> <<[id |-> 1, name |-> "Harbour"]>>,
     shapes  |-> <<[id |-> 1, type |-> "Marker", name |-> "Marker #1"]>>,
     now     |-> 0]

Step(thunk, phase) == [thunk |-> thunk, phase |-> phase]

\* strings the page computes with are sequences of UTF-16 code units
RootId       == <<114, 111, 111, 116>>                 \* 'root'
FolderPrefix == <<102, 111, 108, 100, 101, 114, 45>>   \* 'folder-'

\* a nullable reference: <<>> is null, <<v>> holds v
NullRef == <<>>
Ref(v)  == <<v>>

\* FileManager2: the useState initial values
\* The local state of the page shown.  readers: the FileReaders handleUpload
\* has started and whose onload is still to come, each with the file and the
\* Folder field it closed over.  shapes, shapeCounter: CustomMap's drawn
\* shapes and its id counter; mounted: its fetchShapes effect has run.
\* effectToken: the token App's fetchCurrentUser effect last ran for.
\* password: form.password of the Users page's dialog.
\* editTarget (FileManager2), dialogTarget (Users), mapEditTarget (CustomMap's
\* editTarget): the record the open dialog was opened on, as it was at that
\* click.  profileSaving: UserAccount's saving.  effectDeps: the dependency
\* (list.length) the page's fetch-on-empty effect last ran with, null after
\* the mount.  stale: the calls awaited by a handler of a page instance that
\* has been unmounted since (its state updates are dropped).  awaiting: the
\* handler that awaited the call just settled and whose continuation has not
\* run yet.
pageInitialState ==
    [queue         |-> <<>>,
     searchQuery   |-> <<>>,
     selectedItem  |-> RootId,
     currentFolder |-> NullRef,
     readers       |-> <<>>,
     shapes        |-> <<>>,
     shapeCounter  |-> 0,
     mounted       |-> FALSE,
     effectToken   |-> NullRef,
     password      |-> <<>>,
     editTarget    |-> NullRef,
     dialogTarget  |-> NullRef,
     mapEditTarget |-> NullRef,
     profileSaving |-> FALSE,
     viewerFile    |-> NullRef,
     effectDeps    |-> NullRef,
     stale         |-> {},
     awaiting      |-> NullRef]

\* String.prototype.toLowerCase, on the code units the inputs use (ASCII)
toLowerCase(str) ==
    [i \in 1..Len(str) |-> IF str[i] \in 65..90 THEN str[i] + 32 ELSE str[i]]

\* String.prototype.includes
includes(str, q) ==
    \E k \in 0..(Len(str) - Len(q)) : SubSeq(str, k + 1, k + Len(q)) = q

\* variant: the folder selection still applies while searching
filterPredicate_withinFolder(f, q, currentFolder) ==
    LET matchSearch ==
            \/ q = <<>>
            \/ includes(toLowerCase(f.name), q)
            \/ \E i \in 1..Len(f.tags) : includes(toLowerCase(f.tags[i]), q)
            \/ includes(toLowerCase(f.project), q)
    IN  /\ matchSearch
        /\ currentFolder = NullRef \/ f.folder = currentFolder[1]

\* variant: the folder is matched as a prefix
filterPredicate_prefix(f, q, currentFolder) ==
    IF q # <<>> THEN \/ includes(toLowerCase(f.name), q)
                     \/ \E i \in 1..Len(f.tags) : includes(toLowerCase(f.tags[i]), q)
                     \/ includes(toLowerCase(f.project), q)
    ELSE IF currentFolder = NullRef THEN TRUE
    ELSE /\ Len(f.folder) >= Len(currentFolder[1])
         /\ SubSeq(f.folder, 1, Len(currentFolder[1])) = currentFolder[1]

\* the callback of list.filter in filteredList; q is the lowered search text
filterPredicate(f, q, currentFolder) ==
    LET matchSearch ==
            \/ q = <<>>
            \/ includes(toLowerCase(f.name), q)
            \/ \E i \in 1..Len(f.tags) : includes(toLowerCase(f.tags[i]), q)
            \/ includes(toLowerCase(f.project), q)
    IN  IF q # <<>> THEN matchSearch
        ELSE IF currentFolder = NullRef THEN TRUE
        ELSE f.folder = currentFolder[1]

filteredList(list, searchQuery, currentFolder) ==
    SelectSeq(list, LAMBDA f : filterPredicate(f, toLowerCase(searchQuery), currentFolder))

\* the card of list[i] is rendered: loading ? skeletons : cards, of
\* filteredList in FileManager2 and of list in FileManager
cardShown(i) ==
    /\ i \in 1..Len(files.list)
    /\ ~files.loading
    /\ route = FilesRoute =>
          filterPredicate(files.list[i], toLowerCase(page.searchQuery), page.currentFolder)

\* variant: the lock set is not consulted
locked_never(file) == FALSE

\* the locked prop FileManager2 gives the card of a file
locked(file) == file.folder # <<>> /\ arrayIncludes(files.lockedFolders, file.folder)

\* FileCard: the disabled props of its Edit and Delete buttons
FileCard(file, isLocked) == [editDisabled |-> isLocked, deleteDisabled |-> isLocked]

\* FileInfoDialog: folderIsLocked for the Folder field's value
folderIsLocked(folder) == folder # <<>> /\ arrayIncludes(files.lockedFolders, folder)

Init ==
    /\ token \in {ValidToken, ExpiredToken}
    /\ auth  = authInitialState
    /\ route \in Routes
    /\ files = filesSliceState
    /\ users = usersInitialState
    /\ maps  = mapsInitialState
    /\ page  = pageInitialState
    /\ store = SeedStore
    /\ net = <<>>
    /\ dispatched = 0
    /\ assigned = [c \in {"files", "users", "presets"} |-> Ids(SeedStore[c])]
    /\ last = Step("none", "init")

----------------------------------------------------------------------------
(* createAsyncThunk: the three steps of a thunk call *)

state == [files |-> files, users |-> users, maps |-> maps,
          auth  |-> Spread(auth, [token |-> token])]

Reduced(next) ==
    /\ files' = next.files
    /\ users' = next.users
    /\ maps'  = next.maps
    /\ token' = next.auth.token
    /\ auth'  = Omit(next.auth, "token")

Reduce(a) == Reduced(rootReducer(state, a))

RemoveAt(seq, i) == SubSeq(seq, 1, i - 1) \o SubSeq(seq, i + 1, Len(seq))

\* dispatch(thunk(arg)): the call gets its requestId, the pending action is
\* reduced, the token is read from the auth slice and the request leaves
Send(thunk, arg) ==
    /\ Len(net) < MaxInflight
    /\ dispatched < MaxOps
    /\ Reduce([type |-> thunk \o "/pending", payload |-> Undefined, arg |-> arg])
    /\ net' = Append(net, [requestId |-> dispatched + 1, thunk |-> thunk, arg |-> arg,
                           token |-> token, st |-> "sent", res |-> NoResponse])
    /\ dispatched' = dispatched + 1
    /\ last' = Step(thunk, "pending")
    /\ UNCHANGED <<route, store, assigned>>

\* dispatch(thunk(arg)) from a handler that sets no page state
Dispatch(thunk, arg) == Send(thunk, arg) /\ UNCHANGED page

\* Array.prototype.slice(1)
slice1(q) == IF q = <<>> THEN <<>> ELSE Tail(q)

\* The thunks a handler awaits: FileManager2's onload (uploadFile),
\* handleSaveEdit (updateFile) and handleView (fetchFile), CustomMap's Save
\* to backend (saveShapes), SignIn's handleSubmit (signIn), UserAccount's
\* handleSave (updateProfile).
AwaitedThunks == {"files/uploadFile", "files/updateFile", "files/fetchFile",
                  "maps/saveShapes", "auth/signIn", "auth/updateProfile"}

\* What the handler that awaited the call does once it has settled.
\* handleUpload's onload goes on to setQueue((q) => q.slice(1));
\* handleSaveEdit to setEditTarget(null); Save to backend, when unwrap() does
\* not throw, to setShapes([]) and dispatch(clearDrawnShapes()); UserAccount's
\* handleSave to setSaving(false); handleView, when the call was fulfilled, to
\* setViewerFile(result.payload).  These are the state updates; they are
\* dropped when the handler's page instance is no longer mounted.
afterAwait(c, pg) ==
    IF c.thunk = "files/uploadFile" THEN [pg EXCEPT !.queue = slice1(@)]
    ELSE IF c.thunk = "files/updateFile" THEN [pg EXCEPT !.editTarget = NullRef]
    ELSE IF c.thunk = "files/fetchFile"
    THEN [pg EXCEPT !.viewerFile = IF c.phase = "fulfilled" THEN Ref(c.payload) ELSE @]
    ELSE IF c.thunk = "maps/saveShapes"
    THEN [pg EXCEPT !.shapes = IF c.phase = "fulfilled" THEN <<>> ELSE @]
    ELSE IF c.thunk = "auth/updateProfile" THEN [pg EXCEPT !.profileSaving = FALSE]
    ELSE pg

\* The router unmounts the page shown and mounts a page: the useState values
\* start over and the effects run again.  The Redux state, CustomMap's
\* module-level shapeCounter and App's effect stay; FileReaders and calls
\* already started go on, for handlers of the instance that is gone.
unmounted(pg, inflight) ==
    [pageInitialState EXCEPT
        !.effectToken  = pg.effectToken,
        !.shapeCounter = pg.shapeCounter,
        !.awaiting     = pg.awaiting,
        !.readers      = [j \in 1..Len(pg.readers) |-> [pg.readers[j] EXCEPT !.live = FALSE]],
        !.stale        = pg.stale \cup {inflight[i].requestId : i \in
                            {k \in 1..Len(inflight) : inflight[k].thunk \in AwaitedThunks}}]

\* SignIn's handleSubmit: if (signIn.fulfilled.match(result)) navigate('/dashboard')
navigateAfterAwait(thunk, phase, r) ==
    IF thunk = "auth/signIn" /\ phase = "fulfilled" THEN DashboardRoute ELSE r

dispatchedAfterAwait(thunk, phase) ==
    IF thunk = "maps/saveShapes" /\ phase = "fulfilled"
    THEN <<[type |-> "maps/clearDrawnShapes", payload |-> Undefined, arg |-> Undefined]>>
    ELSE <<>>

RECURSIVE reduceAll(_, _)
reduceAll(st, actions) ==
    IF actions = <<>> THEN st
    ELSE reduceAll(rootReducer(st, Head(actions)), Tail(actions))

\* the Remote Store handles a request that reached it
RemoteStoreHandles(i) ==
    /\ i \in 1..Len(net)
    /\ net[i].st = "sent"
    /\ LET r   == net[i]
           out == remoteStore(store, r.thunk, r.arg, r.token)
           c   == collectionOf(r.thunk)
       IN  /\ store' = out.store
           /\ net' = [net EXCEPT ![i].st = "done", ![i].res = out.res]
           /\ assigned' = IF verbOf(r.thunk) = "create" /\ out.res.status = 200
                          THEN [assigned EXCEPT ![c] = @ \cup {out.res.data.id}]
                          ELSE assigned
           /\ last' = Step(r.thunk, "handled")
    /\ UNCHANGED <<token, auth, route, files, users, maps, page, dispatched>>

\* the request never reaches the Remote Store: fetch() / axios get no response
NetworkFailure(i) ==
    /\ i \in 1..Len(net)
    /\ net[i].st = "sent"
    /\ net' = [net EXCEPT ![i].st = "done", ![i].res = Response(0, Null)]
    /\ last' = Step(net[i].thunk, "dropped")
    /\ UNCHANGED <<token, auth, route, files, users, maps, page, store, dispatched, assigned>>

\* No continuation is waiting: the event loop takes the next event (a click,
\* a response, a FileReader's onload) only when the promise jobs of the
\* previous one have run.
NoJob == page.awaiting = NullRef

\* the payload creator returns: the fulfilled / rejected action is reduced;
\* the handler that awaited the call goes on in a later job
ThunkSettles(i) ==
    /\ NoJob
    /\ i \in 1..Len(net)
    /\ net[i].st = "done"
    /\ LET r    == net[i]
           pc   == payloadCreator(r.thunk, r.arg, r.res)
       IN  /\ Reduce([type |-> r.thunk \o "/" \o pc.phase,
                      payload |-> pc.payload, arg |-> r.arg])
           /\ last' = Step(r.thunk, pc.phase)
           /\ page' = [page EXCEPT !.awaiting =
                          IF r.thunk \in AwaitedThunks
                          THEN Ref([thunk |-> r.thunk, phase |-> pc.phase,
                                    requestId |-> r.requestId, arg |-> r.arg,
                                    payload |-> pc.payload])
                          ELSE NullRef]
    /\ net' = RemoveAt(net, i)
    /\ UNCHANGED <<route, store, dispatched, assigned>>

\* the code after the await, in the handler that dispatched the call
Continue ==
    /\ page.awaiting # NullRef
    /\ LET c    == page.awaiting[1]
           r    == navigateAfterAwait(c.thunk, c.phase, route)
           set  == IF c.requestId \in page.stale THEN page
                   ELSE afterAwait(c, page)
           done == [set EXCEPT !.awaiting = NullRef, !.stale = @ \ {c.requestId}]
       IN  /\ Reduced(reduceAll(state, dispatchedAfterAwait(c.thunk, c.phase)))
           /\ page' = IF r # route THEN unmounted(done, net) ELSE done
           /\ route' = r
           /\ last' = Step(c.thunk, "continued")
    /\ UNCHANGED <<store, net, dispatched, assigned>>

\* useEffect(() => { if (dep === 0) dispatch(thunk()) }, [dispatch, dep]) of
\* the page shown: it runs after the mount and after a render in which dep
\* has changed
FetchOnEmptyEffect(dep, thunk) ==
    /\ page.effectDeps # Ref(dep)
    /\ IF dep = 0
       THEN /\ Send(thunk, Undefined)
            /\ page' = [page EXCEPT !.effectDeps = Ref(dep)]
       ELSE /\ page' = [page EXCEPT !.effectDeps = Ref(dep)]
            /\ last' = Step(thunk, "skipped")
            /\ UNCHANGED <<token, auth, route, files, users, maps, store, net,
                           dispatched, assigned>>

----------------------------------------------------------------------------
(* App.tsx and components/layout/Sidebar.tsx : the router *)

\* <Routes>: the route of the table a path matches; a path that matches none
\* falls to <Route path="*" element={<Navigate to="/" replace />} />
matchRoute(to) == IF \E r \in routes : r.path = to THEN to ELSE LandingRoute

\* navigate(to), from an item of the sidebar or the avatar menu (both inside
\* ProtectedRoute: shown while there is a token) or from the landing page's
\* Sign in button: the page shown is unmounted and the page of the route
\* mounted
NavigateTo(to) ==
    /\ NoJob
    /\ to = SignInRoute \/ token # NoToken
    /\ route # matchRoute(to)
    /\ route' = matchRoute(to)
    /\ page' = unmounted(page, net)
    /\ last' = Step("navigate", "ui")
    /\ UNCHANGED <<token, auth, files, users, maps, store, net, dispatched, assigned>>

----------------------------------------------------------------------------
(* pages/files/FileManager2.tsx, and what pages/files/FileManager.tsx has *)
(* in common with it                                                      *)

\* No dialog of the page is open and no continuation is waiting: the
\* FileInfoDialog (shown while the queue is not empty) and the EditDialog
\* (shown while editTarget is set) are modal and cover the page.
FilesIdle ==
    /\ NoJob
    /\ route \in FilePages
    /\ page.queue = <<>>
    /\ page.editTarget = NullRef
    /\ page.viewerFile = NullRef

\* useEffect: if (list.length === 0) dispatch(fetchFiles()), [dispatch, list.length]
FetchFilesEffect ==
    /\ route \in FilePages
    /\ FetchOnEmptyEffect(Len(files.list), "files/fetchFiles")

\* handleView on the card of list[i]: the content is fetched when the cached
\* record has none, and the viewer opens on the record otherwise; the cards
\* are rendered only while loading is false
HandleView(i) ==
    /\ FilesIdle
    /\ cardShown(i)
    /\ IF "content_base64" \notin DOMAIN files.list[i]
       THEN Dispatch("files/fetchFile", files.list[i].id)
       ELSE /\ page' = [page EXCEPT !.viewerFile = Ref(files.list[i])]
            /\ last' = Step("handleView", "ui")
            /\ UNCHANGED <<token, auth, route, files, users, maps, store, net,
                           dispatched, assigned>>

\* the viewer's onClose: setViewerFile(null).  The viewer is the dialog
\* opened last, so it lies over the upload and edit dialogs
OnCloseViewer ==
    /\ NoJob
    /\ route \in FilePages
    /\ page.viewerFile # NullRef
    /\ page' = [page EXCEPT !.viewerFile = NullRef]
    /\ last' = Step("onCloseViewer", "ui")
    /\ UNCHANGED <<token, auth, route, files, users, maps, store, net, dispatched, assigned>>

\* handleDrop: the files one drop hands over
HandleDrop(dropped) ==
    /\ FilesIdle
    /\ dropped # <<>>
    /\ page' = [page EXCEPT !.queue = @ \o dropped]
    /\ last' = Step("handleDrop", "ui")
    /\ UNCHANGED <<token, auth, route, files, users, maps, store, net, dispatched, assigned>>

\* onCancel: the Cancel button (disabled while saving) or the dialog's
\* onClose (backdrop click, Escape: never disabled)
OnCancel ==
    /\ NoJob
    /\ route \in FilePages
    /\ page.queue # <<>>
    /\ page.viewerFile = NullRef
    /\ page' = [page EXCEPT !.queue = slice1(@)]
    /\ last' = Step("onCancel", "ui")
    /\ UNCHANGED <<token, auth, route, files, users, maps, store, net, dispatched, assigned>>

\* onUpload -> handleUpload: the Upload button (disabled while saving or
\* while the Folder field names a locked folder) starts a FileReader on
\* queue[0]; nothing is dispatched yet
OnUpload(folder) ==
    /\ NoJob
    /\ route = FilesRoute
    /\ page.queue # <<>>
    /\ page.viewerFile = NullRef
    /\ ~files.saving
    /\ ~folderIsLocked(folder)
    /\ dispatched + Len(page.readers) < MaxOps
    /\ Len(net) + Len(page.readers) < MaxInflight
    /\ page' = [page EXCEPT !.readers = Append(@, [file |-> page.queue[1], folder |-> folder,
                                                    live |-> TRUE])]
    /\ last' = Step("handleUpload", "ui")
    /\ UNCHANGED <<token, auth, route, files, users, maps, store, net, dispatched, assigned>>

\* reader.onload: dispatch(uploadFile({...})) for the file the reader was
\* started on, with the fields of that click (FileManager2: the Folder
\* field; FileManager has none)
ReaderOnload(j) ==
    /\ NoJob
    /\ j \in 1..Len(page.readers)
    /\ Send("files/uploadFile",
            Spread(Omit(Omit(page.readers[j], "file"), "live"),
                   [name |-> page.readers[j].file, content_base64 |-> Content]))
    /\ page' = [page EXCEPT !.readers = RemoveAt(@, j),
                            !.stale = IF page.readers[j].live THEN @
                                      ELSE @ \cup {dispatched + 1}]

\* the files a user may drop, at most MaxQueue at once
MaxQueue == 2

\* one drop: n files named "x", "y", ...
Drops == {[k \in 1..n |-> <<119 + k>>] : n \in 1..MaxQueue}

\* onEdit of the card of list[i] (disabled while the file is locked):
\* setEditTarget(file)
OnEditFile(i) ==
    /\ FilesIdle
    /\ route = FilesRoute
    /\ cardShown(i)
    /\ ~FileCard(files.list[i], locked(files.list[i])).editDisabled
    /\ page' = [page EXCEPT !.editTarget = Ref(files.list[i])]
    /\ last' = Step("setEditTarget", "ui")
    /\ UNCHANGED <<token, auth, route, files, users, maps, store, net, dispatched, assigned>>

\* the EditDialog's onClose (Cancel, disabled while saving; backdrop click
\* and Escape, never disabled): setEditTarget(null)
OnCloseEdit ==
    /\ NoJob
    /\ route \in FilePages
    /\ page.editTarget # NullRef
    /\ page.viewerFile = NullRef
    /\ page' = [page EXCEPT !.editTarget = NullRef]
    /\ last' = Step("onCloseEdit", "ui")
    /\ UNCHANGED <<token, auth, route, files, users, maps, store, net, dispatched, assigned>>

\* handleSaveEdit, from the dialog's Save (disabled while saving), with the
\* Folder field set: the id is that of editTarget, the record the dialog was
\* opened on; the dialog stays open until the call has settled
HandleSaveEdit(folder) ==
    /\ NoJob
    /\ route = FilesRoute
    /\ page.editTarget # NullRef
    /\ page.viewerFile = NullRef
    /\ ~files.saving
    /\ Dispatch("files/updateFile", [id |-> page.editTarget[1].id, folder |-> folder])

\* onDelete of the card of list[i]
OnDeleteFile(i) ==
    /\ FilesIdle
    /\ route = FilesRoute
    /\ cardShown(i)
    /\ ~FileCard(files.list[i], locked(files.list[i])).deleteDisabled
    /\ Dispatch("files/deleteFile", files.list[i].id)

----------------------------------------------------------------------------
(* pages/files/FileManager.tsx, the page of the route /files: no folders,  *)
(* no search, no locks.  handleDrop, onCancel, handleView, reader.onload,  *)
(* the dialogs' onClose and the fetch effect are those above.              *)

\* FileCard: its Edit and Delete buttons have no disabled prop
FileManagerFileCard(file) == [editDisabled |-> FALSE, deleteDisabled |-> FALSE]

\* onUpload -> handleUpload(description, tags): the Upload button (disabled
\* while saving) starts a FileReader on queue[0]
FileManagerOnUpload ==
    /\ NoJob
    /\ route = FileManagerRoute
    /\ page.queue # <<>>
    /\ page.viewerFile = NullRef
    /\ ~files.saving
    /\ dispatched + Len(page.readers) < MaxOps
    /\ Len(net) + Len(page.readers) < MaxInflight
    /\ page' = [page EXCEPT !.readers = Append(@, [file |-> page.queue[1], live |-> TRUE])]
    /\ last' = Step("handleUpload", "ui")
    /\ UNCHANGED <<token, auth, route, files, users, maps, store, net, dispatched, assigned>>

\* onEdit={setEditTarget} of the card of list[i]
FileManagerOnEditFile(i) ==
    /\ FilesIdle
    /\ route = FileManagerRoute
    /\ cardShown(i)
    /\ ~FileManagerFileCard(files.list[i]).editDisabled
    /\ page' = [page EXCEPT !.editTarget = Ref(files.list[i])]
    /\ last' = Step("setEditTarget", "ui")
    /\ UNCHANGED <<token, auth, route, files, users, maps, store, net, dispatched, assigned>>

\* handleSaveEdit(description, tags), from the dialog's Save (disabled while
\* saving): updateFile({ id: editTarget.id, description, tags })
FileManagerHandleSaveEdit ==
    /\ NoJob
    /\ route = FileManagerRoute
    /\ page.editTarget # NullRef
    /\ page.viewerFile = NullRef
    /\ ~files.saving
    /\ Dispatch("files/updateFile", [id |-> page.editTarget[1].id])

\* onDelete of the card of list[i]: dispatch(deleteFile(id))
FileManagerOnDeleteFile(i) ==
    /\ FilesIdle
    /\ route = FileManagerRoute
    /\ cardShown(i)
    /\ ~FileManagerFileCard(files.list[i]).deleteDisabled
    /\ Dispatch("files/deleteFile", files.list[i].id)

----------------------------------------------------------------------------
(* pages/users/Users.tsx *)

\* dialogTarget = 'new'
NewTarget == [new |-> TRUE]

isNew(target) == "new" \in DOMAIN target

\* the UserDialog is closed (it is modal) and no continuation is waiting
UsersIdle ==
    /\ NoJob
    /\ route = UsersRoute
    /\ page.dialogTarget = NullRef

\* useEffect: if (data.length === 0) dispatch(fetchUsers()), [dispatch, data.length]
FetchUsersEffect ==
    /\ route = UsersRoute
    /\ FetchOnEmptyEffect(Len(users.list), "users/fetchUsers")

\* the characters \s of a regular expression matches
WhiteSpace ==
    {9, 10, 11, 12, 13, 32, 160, 5760, 8232, 8233, 8239, 8287, 12288, 65279} \cup 8192..8202

\* EMAIL_RE.test(s), EMAIL_RE = /^[^\s@]+@[^\s@]+\.[^\s@]+$/
EMAIL_RE(s) ==
    LET plain(a, b) == a <= b /\ \A k \in a..b : s[k] \notin WhiteSpace \cup {64}
    IN  \E i, j \in 1..Len(s) :
           /\ s[i] = 64
           /\ s[j] = 46
           /\ plain(1, i - 1)
           /\ plain(i + 1, j - 1)
           /\ plain(j + 1, Len(s))

\* toForm(target).password: the Password field of a dialog just opened
toFormPassword == <<>>

\* the form at Save: the fields as filled in, and the Password field
formData(fields) == Spread(fields, [password |-> page.password])

\* canSave, the condition of the Save button
canSave(form, target) == EMAIL_RE(form.email) /\ (~isNew(target) \/ Len(form.password) > 0)

\* handleSave: const { password, ...rest } = form;
\* payload = { ...rest, ...(password ? { password } : {}) }
handleSavePayload(form) ==
    IF form.password # <<>> THEN form ELSE Omit(form, "password")

\* Add User: setDialogTarget('new'); the dialog's effect on [target] sets
\* the form to toForm(target)
OnAddUser ==
    /\ UsersIdle
    /\ page' = [page EXCEPT !.dialogTarget = Ref(NewTarget), !.password = toFormPassword]
    /\ last' = Step("setDialogTarget", "ui")
    /\ UNCHANGED <<token, auth, route, files, users, maps, store, net, dispatched, assigned>>

\* the row's edit button: setDialogTarget(row.original); the dialog's effect
\* on [target] sets the form to toForm(target)
OnEditUser(i) ==
    /\ UsersIdle
    /\ i \in 1..Len(users.list)
    /\ page' = [page EXCEPT !.dialogTarget = Ref(users.list[i]), !.password = toFormPassword]
    /\ last' = Step("setDialogTarget", "ui")
    /\ UNCHANGED <<token, auth, route, files, users, maps, store, net, dispatched, assigned>>

\* the dialog's onClose
OnCloseUserDialog ==
    /\ NoJob
    /\ route = UsersRoute
    /\ page.dialogTarget # NullRef
    /\ page' = [page EXCEPT !.dialogTarget = NullRef]
    /\ last' = Step("onCloseUserDialog", "ui")
    /\ UNCHANGED <<token, auth, route, files, users, maps, store, net, dispatched, assigned>>

\* Save (disabled={!canSave}) -> handleSave with dialogTarget = 'new':
\* dispatch(createUser(payload)), then setDialogTarget(null); the form stays
\* as it is until the dialog is opened again
HandleSaveNewUser(fields) ==
    /\ NoJob
    /\ route = UsersRoute
    /\ page.dialogTarget # NullRef
    /\ isNew(page.dialogTarget[1])
    /\ canSave(formData(fields), page.dialogTarget[1])
    /\ Send("users/createUser", handleSavePayload(formData(fields)))
    /\ page' = [page EXCEPT !.dialogTarget = NullRef]

\* handleSave with dialogTarget a row: { ...dialogTarget, ...payload }, the
\* row as it was when the dialog was opened; then setDialogTarget(null)
HandleSaveUser(fields) ==
    /\ NoJob
    /\ route = UsersRoute
    /\ page.dialogTarget # NullRef
    /\ ~isNew(page.dialogTarget[1])
    /\ canSave(formData(fields), page.dialogTarget[1])
    /\ Send("users/updateUser", Spread(page.dialogTarget[1], handleSavePayload(formData(fields))))
    /\ page' = [page EXCEPT !.dialogTarget = NullRef]

\* the Password field holds up to MaxPassword characters out of "a", "A",
\* "1" and "!"
MaxPassword == 8
PasswordKeys == {97, 65, 49, 33}

\* onChange of the Password field of the open dialog: set('password'), one
\* character typed
TypePassword(ch) ==
    /\ NoJob
    /\ route = UsersRoute
    /\ page.dialogTarget # NullRef
    /\ Len(page.password) < MaxPassword
    /\ page' = [page EXCEPT !.password = Append(@, ch)]
    /\ last' = Step("setForm", "ui")
    /\ UNCHANGED <<token, auth, route, files, users, maps, store, net, dispatched, assigned>>

\* the same, one character deleted
ErasePassword ==
    /\ NoJob
    /\ route = UsersRoute
    /\ page.dialogTarget # NullRef
    /\ page.password # <<>>
    /\ page' = [page EXCEPT !.password = SubSeq(@, 1, Len(@) - 1)]
    /\ last' = Step("setForm", "ui")
    /\ UNCHANGED <<token, auth, route, files, users, maps, store, net, dispatched, assigned>>

\* the row's delete button
OnDeleteUser(i) ==
    /\ UsersIdle
    /\ i \in 1..Len(users.list)
    /\ Dispatch("users/deleteUser", users.list[i].id)

----------------------------------------------------------------------------
(* pages/users/UserAccount.tsx *)

\* handleSave, from Save Changes (disabled while saving): setSaving(true),
\* dispatch(updateProfile({ name, ... }))
HandleSaveProfile(form) ==
    /\ NoJob
    /\ route = AccountRoute
    /\ ~page.profileSaving
    /\ Send("auth/updateProfile", form)
    /\ page' = [page EXCEPT !.profileSaving = TRUE]

----------------------------------------------------------------------------
(* pages/maps/CustomMap.tsx, HistoryMap.tsx, GeoJsonMap.tsx *)

\* editTarget = { kind, item | shape }; 'new-preset' has no record
EditTarget(kind, item) == [kind |-> kind, item |-> item]
NoItem == [id |-> 0]

\* the EditDialog is closed (it is modal) and no continuation is waiting
MapIdle ==
    /\ NoJob
    /\ route = CustomRoute
    /\ page.mapEditTarget = NullRef

\* its Save is clicked with editTarget of this kind
EditOpen(kind) ==
    /\ NoJob
    /\ route = CustomRoute
    /\ page.mapEditTarget # NullRef
    /\ page.mapEditTarget[1].kind = kind

\* useEffect: if (customItems.length === 0) dispatch(fetchCustomMap())
FetchCustomMapEffect ==
    /\ route = CustomRoute
    /\ FetchOnEmptyEffect(Len(maps.customItems), "maps/fetchCustomMap")

\* useEffect(() => { dispatch(fetchShapes()) }, [dispatch]): once, on mount
FetchShapesEffect ==
    /\ route = CustomRoute
    /\ ~page.mounted
    /\ Send("maps/fetchShapes", Undefined)
    /\ page' = [page EXCEPT !.mounted = TRUE]

\* the edit buttons: setEditTarget({ kind, item })
SetEditTarget(target) ==
    /\ MapIdle
    /\ page' = [page EXCEPT !.mapEditTarget = Ref(target)]
    /\ last' = Step("setEditTarget", "ui")
    /\ UNCHANGED <<token, auth, route, files, users, maps, store, net, dispatched, assigned>>

\* the buttons shown: Add preset, and Edit of each preset, each drawn shape
\* of the page's list and each saved shape
EditTargets ==
    {EditTarget("new-preset", NoItem)}
        \cup {EditTarget("preset", maps.customItems[i]) : i \in 1..Len(maps.customItems)}
        \cup {EditTarget("drawn", page.shapes[i]) : i \in 1..Len(page.shapes)}
        \cup {EditTarget("saved", maps.savedShapes[i]) : i \in 1..Len(maps.savedShapes)}

\* the dialog's onClose
OnCloseMapEdit ==
    /\ NoJob
    /\ route = CustomRoute
    /\ page.mapEditTarget # NullRef
    /\ page' = [page EXCEPT !.mapEditTarget = NullRef]
    /\ last' = Step("onCloseMapEdit", "ui")
    /\ UNCHANGED <<token, auth, route, files, users, maps, store, net, dispatched, assigned>>

\* handleEditSave, editTarget.kind = 'new-preset'
HandleAddPreset(form) ==
    /\ EditOpen("new-preset")
    /\ Send("maps/addPreset", form)
    /\ page' = [page EXCEPT !.mapEditTarget = NullRef]

\* handleEditSave, editTarget.kind = 'preset': { ...editTarget.item, name, ... },
\* the item as it was when the dialog was opened
HandleSavePreset(form) ==
    /\ EditOpen("preset")
    /\ Send("maps/updatePreset", Spread(page.mapEditTarget[1].item, form))
    /\ page' = [page EXCEPT !.mapEditTarget = NullRef]

\* Array.prototype.map of setShapes: the shape with this id gets the name
renamed(list, id, name) ==
    [k \in 1..Len(list) |-> IF list[k].id = id THEN Spread(list[k], [name |-> name]) ELSE list[k]]

\* handleEditSave, editTarget.kind = 'drawn':
\* dispatch(updateDrawnShape({ id, name, ... })) and setShapes(prev.map(...))
HandleSaveDrawn(form) ==
    /\ EditOpen("drawn")
    /\ Reduce([type |-> "maps/updateDrawnShape",
               payload |-> [id |-> page.mapEditTarget[1].item.id, name |-> form.name],
               arg |-> Undefined])
    /\ page' = [page EXCEPT !.shapes = renamed(@, page.mapEditTarget[1].item.id, form.name),
                            !.mapEditTarget = NullRef]
    /\ last' = Step("maps/updateDrawnShape", "ui")
    /\ UNCHANGED <<route, store, net, dispatched, assigned>>

\* handleEditSave, editTarget.kind = 'saved': { ...editTarget.shape, name, ... }
HandleSaveSaved(form) ==
    /\ EditOpen("saved")
    /\ Send("maps/updateSavedShape", Spread(page.mapEditTarget[1].item, form))
    /\ page' = [page EXCEPT !.mapEditTarget = NullRef]

OnDeletePreset(i) ==
    /\ MapIdle
    /\ i \in 1..Len(maps.customItems)
    /\ Dispatch("maps/deletePreset", maps.customItems[i].id)

\* the delete button of a saved shape
OnDeleteSavedShape(i) ==
    /\ MapIdle
    /\ i \in 1..Len(maps.savedShapes)
    /\ Dispatch("maps/deleteSavedShape", maps.savedShapes[i].id)

\* useEffect: if (markers.length === 0) dispatch(fetchHistoryMarkers())
FetchHistoryMarkersEffect ==
    /\ route = HistoryRoute
    /\ FetchOnEmptyEffect(Len(maps.markers), "maps/fetchHistoryMarkers")

\* useEffect: if (!geoData) dispatch(fetchGeoJson()), [dispatch, geoData]
FetchGeoJsonEffect ==
    /\ route = GeoRoute
    /\ FetchOnEmptyEffect(IF maps.geoData = Null THEN 0 ELSE 1, "maps/fetchGeoJson")

----------------------------------------------------------------------------

\* no list grows beyond the seed and one record per dispatched create
MaxIndex == MaxOps + 1

\* (one file is dropped at a time here; a drop of several files is followed
\* under SpecUpload)
Next ==
    \/ FetchFilesEffect
    \/ \E i \in 1..MaxIndex : HandleView(i)
    \/ OnCloseViewer
    \/ \E dropped \in Drops : Len(dropped) = 1 /\ HandleDrop(dropped)
    \/ OnCancel
    \/ \E f \in FolderInputs : OnUpload(f)
    \/ \E j \in 1..MaxInflight : ReaderOnload(j)
    \/ \E i \in 1..MaxIndex : OnEditFile(i)
    \/ OnCloseEdit
    \/ \E f \in FolderInputs : HandleSaveEdit(f)
    \/ \E i \in 1..MaxIndex : OnDeleteFile(i)
    \/ FileManagerOnUpload
    \/ \E i \in 1..MaxIndex : FileManagerOnEditFile(i)
    \/ FileManagerHandleSaveEdit
    \/ \E i \in 1..MaxIndex : FileManagerOnDeleteFile(i)
    \/ FetchUsersEffect
    \/ OnAddUser
    \/ \E i \in 1..MaxIndex : OnEditUser(i)
    \/ OnCloseUserDialog
    \/ page.password = <<>> /\ TypePassword(97)
    \/ \E form \in UserForms : HandleSaveNewUser(form)
    \/ \E form \in UserForms : HandleSaveUser(form)
    \/ \E i \in 1..MaxIndex : OnDeleteUser(i)
    \/ FetchCustomMapEffect
    \/ FetchShapesEffect
    \/ \E target \in EditTargets : SetEditTarget(target)
    \/ OnCloseMapEdit
    \/ \E form \in PresetForms : HandleAddPreset(form)
    \/ \E form \in PresetForms : HandleSavePreset(form)
    \/ \E form \in PresetForms : HandleSaveSaved(form)
    \/ \E i \in 1..MaxIndex : OnDeletePreset(i)
    \/ \E i \in 1..MaxIndex : OnDeleteSavedShape(i)
    \/ FetchHistoryMarkersEffect
    \/ FetchGeoJsonEffect
    \/ \E i \in 1..MaxInflight : RemoteStoreHandles(i)
    \/ \E i \in 1..MaxInflight : NetworkFailure(i)
    \/ \E i \in 1..MaxInflight : ThunkSettles(i)
    \/ Continue

Spec == Init /\ [][Next]_vars

----------------------------------------------------------------------------
(* Sequential use: the page dispatches the next create / update / delete   *)
(* only when no call is in flight, starting from a cache that the first    *)
(* fetchAll has filled.                                                    *)

Quiet == net = <<>>

InitSeq ==
    /\ token \in {ValidToken, ExpiredToken}
    /\ auth  = authInitialState
    /\ route \in {FilesRoute, UsersRoute}
    /\ files = [filesSliceState EXCEPT !.list = storeList("files", SeedStore.files)]
    /\ users = [usersInitialState EXCEPT !.list = storeList("users", SeedStore.users)]
    /\ maps  = mapsInitialState
    /\ page  = pageInitialState
    /\ store = SeedStore
    /\ net = <<>>
    /\ dispatched = 0
    /\ assigned = [c \in {"files", "users", "presets"} |-> Ids(SeedStore[c])]
    /\ last = Step("none", "init")

NextSeq ==
    \/ Quiet /\ FetchFilesEffect
    \/ Quiet /\ \E dropped \in Drops : HandleDrop(dropped)
    \/ OnCancel
    \/ Quiet /\ \E f \in FolderInputs : OnUpload(f)
    \/ Quiet /\ ReaderOnload(1)
    \/ Quiet /\ \E i \in 1..MaxIndex : OnEditFile(i)
    \/ OnCloseEdit
    \/ Quiet /\ \E f \in FolderInputs : HandleSaveEdit(f)
    \/ Quiet /\ \E i \in 1..MaxIndex : OnDeleteFile(i)
    \/ Quiet /\ FetchUsersEffect
    \/ Quiet /\ OnAddUser
    \/ Quiet /\ \E i \in 1..MaxIndex : OnEditUser(i)
    \/ Quiet /\ page.password = <<>> /\ TypePassword(97)
    \/ Quiet /\ \E form \in UserForms : HandleSaveNewUser(form)
    \/ Quiet /\ \E form \in UserForms : HandleSaveUser(form)
    \/ Quiet /\ \E i \in 1..MaxIndex : OnDeleteUser(i)
    \/ RemoteStoreHandles(1)
    \/ NetworkFailure(1)
    \/ ThunkSettles(1)
    \/ Continue

SpecSeq == InitSeq /\ [][NextSeq]_vars

----------------------------------------------------------------------------
(* pages/files/FileManager2.tsx : the folder list of the tree panel        *)

\* list.map((f) => f.folder)
folderColumn(list) == [i \in 1..Len(list) |-> list[i].folder]

\* .filter(Boolean): the empty string is falsy
RECURSIVE filterBoolean(_)
filterBoolean(seq) ==
    IF seq = <<>> THEN <<>>
    ELSE IF Head(seq) # <<>>
         THEN <<Head(seq)>> \o filterBoolean(Tail(seq))
         ELSE filterBoolean(Tail(seq))

\* [...new Set(seq)]: first occurrences, in insertion order
RECURSIVE setOf(_, _)
setOf(seq, seen) ==
    IF seq = <<>> THEN seen
    ELSE IF \E k \in 1..Len(seen) : seen[k] = Head(seq)
         THEN setOf(Tail(seq), seen)
         ELSE setOf(Tail(seq), Append(seen, Head(seq)))

\* the default comparator of Array.prototype.sort: strings by UTF-16 code units
RECURSIVE codeUnitLess(_, _)
codeUnitLess(a, b) ==
    IF b = <<>> THEN FALSE
    ELSE IF a = <<>> THEN TRUE
    ELSE IF Head(a) < Head(b) THEN TRUE
    ELSE IF Head(a) > Head(b) THEN FALSE
    ELSE codeUnitLess(Tail(a), Tail(b))

RECURSIVE insertSorted(_, _)
insertSorted(sorted, x) ==
    IF sorted = <<>> THEN <<x>>
    ELSE IF codeUnitLess(x, Head(sorted)) THEN <<x>> \o sorted
    ELSE <<Head(sorted)>> \o insertSorted(Tail(sorted), x)

\* .sort()
RECURSIVE sort(_)
sort(seq) == IF seq = <<>> THEN <<>> ELSE insertSorted(sort(Tail(seq)), Head(seq))

\* variant: the .sort() is missing
folders_unsorted(list) == setOf(filterBoolean(folderColumn(list)), <<>>)

\* const folders = [...new Set(list.map((f) => f.folder).filter(Boolean))].sort()
folders(list) == sort(setOf(filterBoolean(folderColumn(list)), <<>>))

\* The files the Remote Store may hold when the page is opened: up to MaxLen
\* records in folders "", "B", "a", "ab", "b"
MaxLen == 4
FolderNames == {<<>>, <<66>>, <<97>>, <<97, 98>>, <<98>>}

FileStores ==
    UNION {[1..n -> FolderNames] : n \in 0..MaxLen}

InitFolders ==
    /\ token = ValidToken
    /\ auth  = authInitialState
    /\ route = FilesRoute
    /\ files = filesSliceState
    /\ users = usersInitialState
    /\ maps  = mapsInitialState
    /\ page  = pageInitialState
    /\ \E fs \in FileStores :
         store = [SeedStore EXCEPT !.files =
                    [i \in 1..Len(fs) |-> [id |-> i, folder |-> fs[i], content_base64 |-> Content]]]
    /\ net = <<>>
    /\ dispatched = 0
    /\ assigned = [c \in {"files", "users", "presets"} |-> Ids(store[c])]
    /\ last = Step("none", "init")

NextFolders ==
    \/ FetchFilesEffect
    \/ RemoteStoreHandles(1)
    \/ ThunkSettles(1)

SpecFolders == InitFolders /\ [][NextFolders]_vars

----------------------------------------------------------------------------
(* FileManager2: the tree panel, the search field and the file grid *)

\* the itemIds of the rendered TreeItems
treeItemIds ==
    {RootId} \cup {FolderPrefix \o folders(files.list)[k] : k \in 1..Len(folders(files.list))}

\* handleSelect: onSelectedItemsChange of the tree (id may be null)
HandleSelect(id) ==
    /\ FilesIdle
    /\ route = FilesRoute
    /\ id \in treeItemIds \cup {<<>>}
    /\ page' = IF id = <<>> THEN page
               ELSE [page EXCEPT !.selectedItem = id,
                                 !.searchQuery = <<>>,
                                 !.currentFolder =
                                     IF id = RootId THEN NullRef
                                     ELSE Ref(SubSeq(id, Len(FolderPrefix) + 1, Len(id)))]
    /\ last' = Step("handleSelect", "ui")
    /\ UNCHANGED <<token, auth, route, files, users, maps, store, net, dispatched, assigned>>

\* onChange of the search field: setSearchQuery(e.target.value)
SetSearchQuery(q) ==
    /\ FilesIdle
    /\ route = FilesRoute
    /\ page' = [page EXCEPT !.searchQuery = q]
    /\ last' = Step("setSearchQuery", "ui")
    /\ UNCHANGED <<token, auth, route, files, users, maps, store, net, dispatched, assigned>>

\* The files the Remote Store may hold: up to MaxFiles of these records
\* ("Ab", "b", "B", "aB", "A" are names, tags and projects; folders are "a",
\* "b", "ab" and "")
MaxFiles == 3

ViewRecords ==
    {[name |-> <<65, 98>>, tags |-> <<>>,                      project |-> <<>>,       folder |-> <<97>>],
     [name |-> <<98>>,     tags |-> <<<<65>>>>,                project |-> <<>>,       folder |-> <<98>>],
     [name |-> <<98>>,     tags |-> <<<<98>>, <<97, 66>>>>,    project |-> <<>>,       folder |-> <<>>],
     [name |-> <<66>>,     tags |-> <<>>,                      project |-> <<65, 98>>, folder |-> <<97>>],
     [name |-> <<>>,       tags |-> <<>>,                      project |-> <<98>>,     folder |-> <<97, 98>>]}

SearchInputs == {<<>>, <<97>>, <<65>>, <<97, 66>>, <<66>>, <<98, 98>>}

ViewStores == UNION {[1..n -> ViewRecords] : n \in 0..MaxFiles}

InitView ==
    /\ token = ValidToken
    /\ auth  = authInitialState
    /\ route = FilesRoute
    /\ files = filesSliceState
    /\ users = usersInitialState
    /\ maps  = mapsInitialState
    /\ page  = pageInitialState
    /\ \E fs \in ViewStores :
         store = [SeedStore EXCEPT !.files =
                    [i \in 1..Len(fs) |->
                        [id |-> i, name |-> fs[i].name, tags |-> fs[i].tags,
                         project |-> fs[i].project, folder |-> fs[i].folder,
                         content_base64 |-> Content]]]
    /\ net = <<>>
    /\ dispatched = 0
    /\ assigned = [c \in {"files", "users", "presets"} |-> Ids(store[c])]
    /\ last = Step("none", "init")

NextView ==
    \/ FetchFilesEffect
    \/ RemoteStoreHandles(1)
    \/ ThunkSettles(1)
    \/ \E q \in SearchInputs : SetSearchQuery(q)
    \/ \E id \in treeItemIds \cup {<<>>} : HandleSelect(id)

SpecView == InitView /\ [][NextView]_vars

----------------------------------------------------------------------------
(* Folder locks: the lock button of a folder row, and the cards' Edit and
   Delete under it *)

\* variant: locking a folder also drops its files from the cached list
HandleToggleLock_hidesFiles(name) ==
    /\ route = FilesRoute
    /\ arrayIncludes(folders(files.list), name)
    /\ files' = [toggleFolderLock(files, [payload |-> name]) EXCEPT
                   !.list = SelectSeq(@, LAMBDA f : f.folder # name)]
    /\ last' = Step("files/toggleFolderLock", "ui")
    /\ UNCHANGED <<token, auth, route, users, maps, page, store, net, dispatched, assigned>>

\* handleToggleLock: onToggleLock of the row of folder `name`
HandleToggleLock(name) ==
    /\ FilesIdle
    /\ route = FilesRoute
    /\ arrayIncludes(folders(files.list), name)
    /\ Reduce([type |-> "files/toggleFolderLock", payload |-> name, arg |-> Undefined])
    /\ last' = Step("files/toggleFolderLock", "ui")
    /\ UNCHANGED <<route, page, store, net, dispatched, assigned>>

\* The files the Remote Store may hold: up to MaxFiles records in the folders
\* "a", "b" and none
LockFolders == {<<>>, <<97>>, <<98>>}

LockStores == UNION {[1..n -> LockFolders] : n \in 0..MaxFiles}

InitLocks ==
    /\ token = ValidToken
    /\ auth  = authInitialState
    /\ route = FilesRoute
    /\ files = filesSliceState
    /\ users = usersInitialState
    /\ maps  = mapsInitialState
    /\ page  = pageInitialState
    /\ \E fs \in LockStores :
         store = [SeedStore EXCEPT !.files =
                    [i \in 1..Len(fs) |->
                        [id |-> i, name |-> <<102>>, tags |-> <<>>, project |-> <<>>,
                         folder |-> fs[i], content_base64 |-> Content]]]
    /\ net = <<>>
    /\ dispatched = 0
    /\ assigned = [c \in {"files", "users", "presets"} |-> Ids(store[c])]
    /\ last = Step("none", "init")

NextLocks ==
    \/ FetchFilesEffect
    \/ \E name \in LockFolders : HandleToggleLock(name)
    \/ \E i \in 1..MaxFiles : OnEditFile(i)
    \/ OnCloseEdit
    \/ \E folder \in LockFolders : HandleSaveEdit(folder)
    \/ \E i \in 1..MaxFiles : OnDeleteFile(i)
    \/ \E i \in 1..MaxInflight : RemoteStoreHandles(i)
    \/ \E i \in 1..MaxInflight : ThunkSettles(i)
    \/ Continue

SpecLocks == InitLocks /\ [][NextLocks]_vars

----------------------------------------------------------------------------
(* The upload queue: FileDropzone, FileInfoDialog and handleUpload *)

InitUpload ==
    /\ token = ValidToken
    /\ auth  = authInitialState
    /\ route = FilesRoute
    /\ files = filesSliceState
    /\ users = usersInitialState
    /\ maps  = mapsInitialState
    /\ page  = pageInitialState
    /\ store = SeedStore
    /\ net = <<>>
    /\ dispatched = 0
    /\ assigned = [c \in {"files", "users", "presets"} |-> Ids(store[c])]
    /\ last = Step("none", "init")

NextUpload ==
    \/ FetchFilesEffect
    \/ \E dropped \in Drops : HandleDrop(dropped)
    \/ OnCancel
    \/ \E folder \in FolderInputs : OnUpload(folder)
    \/ \E j \in 1..MaxInflight : ReaderOnload(j)
    \/ \E i \in 1..MaxInflight : RemoteStoreHandles(i)
    \/ \E i \in 1..MaxInflight : NetworkFailure(i)
    \/ \E i \in 1..MaxInflight : ThunkSettles(i)
    \/ Continue

SpecUpload == InitUpload /\ [][NextUpload]_vars

----------------------------------------------------------------------------
(* pages/maps/CustomMap.tsx: drawn shapes and Save to backend *)

\* at most MaxShapes shapes are drawn in a behaviour
MaxShapes == 2

ShapeTypes == {"Circle", "Line"}

\* pm:create -> onCreated -> handleShapeAdded; the map and its drawing
\* controls are rendered while customLoading is false
HandleShapeAdded(type) ==
    /\ MapIdle
    /\ page.mounted
    /\ ~maps.customLoading
    /\ page.shapeCounter < MaxShapes
    /\ LET id    == page.shapeCounter + 1
           shape == [id |-> id, type |-> type, name |-> type \o " #" \o ToString(id)]
       IN  /\ page' = [page EXCEPT !.shapeCounter = id, !.shapes = Append(@, shape)]
           /\ Reduce([type |-> "maps/addDrawnShape", payload |-> shape, arg |-> Undefined])
    /\ last' = Step("maps/addDrawnShape", "ui")
    /\ UNCHANGED <<route, store, net, dispatched, assigned>>

\* removeShape (the Delete button of the Drawn shapes list, which is rendered
\* whatever customLoading is) and handleShapeRemoved (pm:remove)
RemoveShape(id) ==
    /\ MapIdle
    /\ page.mounted
    /\ id \in Ids(page.shapes)
    /\ page' = [page EXCEPT !.shapes = filterOutId(@, id)]
    /\ Reduce([type |-> "maps/removeDrawnShape", payload |-> id, arg |-> Undefined])
    /\ last' = Step("maps/removeDrawnShape", "ui")
    /\ UNCHANGED <<route, store, net, dispatched, assigned>>

\* Save to backend: disabled={drawnShapes.length === 0 || shapesSaving}
SaveToBackend ==
    /\ MapIdle
    /\ page.mounted
    /\ Len(maps.drawnShapes) # 0
    /\ ~maps.shapesSaving
    /\ Dispatch("maps/saveShapes", maps.drawnShapes)

\* The shapes the Remote Store may hold when the page opens: up to MaxStored
MaxStored == 2

StoredShapes ==
    {[i \in 1..n |-> [id |-> i + d, type |-> "Marker", name |-> "Marker #" \o ToString(i + d)]] :
        n \in 0..MaxStored, d \in 0..1}

InitShapes ==
    /\ token \in {ValidToken, ExpiredToken}
    /\ auth  = authInitialState
    /\ route = CustomRoute
    /\ files = filesSliceState
    /\ users = usersInitialState
    /\ maps  = mapsInitialState
    /\ page  = pageInitialState
    /\ \E stored \in StoredShapes : store = [SeedStore EXCEPT !.shapes = stored]
    /\ net = <<>>
    /\ dispatched = 0
    /\ assigned = [c \in {"files", "users", "presets"} |-> Ids(store[c])]
    /\ last = Step("none", "init")

\* the Name field of the EditDialog of a shape
ShapeForms == {[name |-> "Depot"]}

NextShapes ==
    \/ FetchShapesEffect
    \/ \E type \in ShapeTypes : HandleShapeAdded(type)
    \/ \E id \in 1..MaxShapes : RemoveShape(id)
    \/ SaveToBackend
    \/ \E target \in EditTargets : target.kind = "drawn" /\ SetEditTarget(target)
    \/ OnCloseMapEdit
    \/ \E form \in ShapeForms : HandleSaveDrawn(form)
    \/ \E i \in 1..MaxInflight : RemoteStoreHandles(i)
    \/ \E i \in 1..MaxInflight : NetworkFailure(i)
    \/ \E i \in 1..MaxInflight : ThunkSettles(i)
    \/ Continue

SpecShapes == InitShapes /\ [][NextShapes]_vars

----------------------------------------------------------------------------
(* CustomMap left and opened again while calls are in flight *)

InFlightNow(thunk) == \E i \in 1..Len(net) : net[i].thunk = thunk

\* The user goes to the dashboard and comes back: the router unmounts
\* CustomMap at the first navigation and mounts it again at the second; its
\* useState values start over and its effects run again, the module-level
\* shapeCounter and the Redux state stay.  A save the old instance awaits
\* goes on: its continuation still dispatches, its setShapes is ignored.
\* One shape is stored when the page opens.
InitRefetch ==
    /\ token = ValidToken
    /\ auth  = authInitialState
    /\ route = CustomRoute
    /\ files = filesSliceState
    /\ users = usersInitialState
    /\ maps  = mapsInitialState
    /\ page  = pageInitialState
    /\ store = SeedStore
    /\ net = <<>>
    /\ dispatched = 0
    /\ assigned = [c \in {"files", "users", "presets"} |-> Ids(store[c])]
    /\ last = Step("none", "init")

NextRefetch ==
    \/ FetchShapesEffect
    \/ FetchCustomMapEffect
    \/ \E to \in {DashboardRoute, CustomRoute} : NavigateTo(to)
    \/ HandleShapeAdded("Circle")
    \/ SaveToBackend
    \/ \E target \in EditTargets : target.kind = "saved" /\ SetEditTarget(target)
    \/ OnCloseMapEdit
    \/ \E form \in ShapeForms : HandleSaveSaved(form)
    \/ \E i \in 1..MaxIndex : OnDeleteSavedShape(i)
    \/ \E i \in 1..MaxInflight : RemoteStoreHandles(i)
    \/ \E i \in 1..MaxInflight : NetworkFailure(i)
    \/ \E i \in 1..MaxInflight : ThunkSettles(i)
    \/ Continue

SpecRefetch == InitRefetch /\ [][NextRefetch]_vars

----------------------------------------------------------------------------
(* Signing in: pages/SignIn.tsx, App.tsx and the Auth Gate's clock *)

\* handleSubmit: the Sign in button is disabled while auth.loading
HandleSubmit(form) ==
    /\ NoJob
    /\ route = SignInRoute
    /\ ~auth.loading
    /\ Dispatch("auth/signIn", form)

\* App: useEffect(() => { if (token) dispatch(fetchCurrentUser()) }, [token])
FetchCurrentUserEffect ==
    /\ page.effectToken # Ref(token)
    /\ page' = [page EXCEPT !.effectToken = Ref(token)]
    /\ IF token # NoToken
       THEN Send("auth/fetchCurrentUser", Undefined)
       ELSE /\ last' = Step("auth/fetchCurrentUser", "skipped")
            /\ UNCHANGED <<token, auth, route, files, users, maps, store, net,
                           dispatched, assigned>>

\* the clock is followed in steps of half a token life, up to hour MaxClock
MaxClock == 36

Tick(d) ==
    /\ store.now + d <= MaxClock
    /\ store' = [store EXCEPT !.now = @ + d]
    /\ last' = Step("clock", "tick")
    /\ UNCHANGED <<token, auth, route, files, users, maps, page, net, dispatched, assigned>>

LoginForms ==
    {[email |-> "admin@example.com",  password |-> "password123"],
     [email |-> "editor@example.com", password |-> "password123"],
     [email |-> "admin@example.com",  password |-> "letmein"],
     [email |-> "nobody@example.com", password |-> "password123"]}

AuthStore == [SeedStore EXCEPT !.users = <<[id |-> 1, name |-> "ann"], [id |-> 2, name |-> "ed"]>>]

InitAuth ==
    /\ token \in {NoToken, ValidToken, ExpiredToken, ForgedToken}
    /\ auth  = authInitialState
    /\ route \in (IF token = NoToken THEN {SignInRoute} ELSE {SignInRoute, UsersRoute})
    /\ files = filesSliceState
    /\ users = usersInitialState
    /\ maps  = mapsInitialState
    /\ page  = pageInitialState
    /\ store = AuthStore
    /\ net = <<>>
    /\ dispatched = 0
    /\ assigned = [c \in {"files", "users", "presets"} |-> Ids(store[c])]
    /\ last = Step("none", "init")

\* one call at a time; the clock runs at any moment
\* the Name field of the account page
ProfileForms == {[name |-> "Ann B"]}

NextAuth ==
    \/ Quiet /\ \E form \in LoginForms : HandleSubmit(form)
    \/ Quiet /\ FetchCurrentUserEffect
    \/ \E r \in {SignInRoute, UsersRoute, AccountRoute} : NavigateTo(r)
    \/ Quiet /\ FetchUsersEffect
    \/ Quiet /\ OnAddUser
    \/ Quiet /\ page.password = <<>> /\ TypePassword(97)
    \/ Quiet /\ \E form \in UserForms : HandleSaveNewUser(form)
    \/ Quiet /\ \E form \in ProfileForms : HandleSaveProfile(form)
    \/ Tick(TokenLife \div 2)
    \/ RemoteStoreHandles(1)
    \/ NetworkFailure(1)
    \/ ThunkSettles(1)
    \/ Continue

SpecAuth == InitAuth /\ [][NextAuth]_vars

----------------------------------------------------------------------------
(* Signing out: components/layout/Header.tsx *)

\* handleSignOut, from the avatar menu of the header (part of the layout of
\* the protected pages): dispatch(signOut()); navigate('/')
HandleSignOut ==
    /\ NoJob
    /\ route \notin {SignInRoute, LandingRoute}
    /\ token # NoToken
    /\ Reduce([type |-> "auth/signOut", payload |-> Undefined, arg |-> Undefined])
    /\ route' = LandingRoute
    /\ page' = unmounted(page, net)
    /\ last' = Step("auth/signOut", "ui")
    /\ UNCHANGED <<store, net, dispatched, assigned>>

\* the two accounts of the login form
SignOutForms ==
    {[email |-> "admin@example.com",  password |-> "password123"],
     [email |-> "editor@example.com", password |-> "password123"]}

InitSignOut ==
    /\ token \in {NoToken, ValidToken}
    /\ auth  = authInitialState
    /\ route = (IF token = NoToken THEN SignInRoute ELSE UsersRoute)
    /\ files = filesSliceState
    /\ users = usersInitialState
    /\ maps  = mapsInitialState
    /\ page  = pageInitialState
    /\ store = AuthStore
    /\ net = <<>>
    /\ dispatched = 0
    /\ assigned = [c \in {"files", "users", "presets"} |-> Ids(store[c])]
    /\ last = Step("none", "init")

\* calls overlap: the user signs out, signs in and moves between the pages
\* while requests are in flight
NextSignOut ==
    \/ \E form \in SignOutForms : HandleSubmit(form)
    \/ FetchCurrentUserEffect
    \/ \E r \in {SignInRoute, UsersRoute, AccountRoute} : NavigateTo(r)
    \/ \E form \in ProfileForms : HandleSaveProfile(form)
    \/ HandleSignOut
    \/ \E i \in 1..MaxInflight : RemoteStoreHandles(i)
    \/ \E i \in 1..MaxInflight : ThunkSettles(i)
    \/ Continue

SpecSignOut == InitSignOut /\ [][NextSignOut]_vars

----------------------------------------------------------------------------
(* components/common/fuctions.tsx : getStrength, and the Password field of
   the Users page's dialog *)

\* RegExp.prototype.test for the three character classes, on code units
testUpper(pw)  == \E i \in 1..Len(pw) : pw[i] \in 65..90
testDigit(pw)  == \E i \in 1..Len(pw) : pw[i] \in 48..57
testSymbol(pw) == \E i \in 1..Len(pw) : pw[i] \notin (65..90) \cup (97..122) \cup (48..57)

StrengthMap ==
    <<[score |-> 1, label |-> "Weak",   color |-> "#d73027"],
      [score |-> 2, label |-> "Fair",   color |-> "#fc8d59"],
      [score |-> 3, label |-> "Good",   color |-> "#91cf60"],
      [score |-> 4, label |-> "Strong", color |-> "#1a9850"]>>

\* the s++ chain
strengthCount(pw) ==
    (IF Len(pw) >= 8 THEN 1 ELSE 0) + (IF testUpper(pw) THEN 1 ELSE 0)
    + (IF testDigit(pw) THEN 1 ELSE 0) + (IF testSymbol(pw) THEN 1 ELSE 0)

getStrength(pw) ==
    IF pw = <<>> THEN [score |-> 0, label |-> "", color |-> ""]
    ELSE LET s == strengthCount(pw)
         IN  IF s - 1 \in 0..(Len(StrengthMap) - 1) THEN StrengthMap[s]
             ELSE [score |-> 0, label |-> "Weak", color |-> "#d73027"]

\* const strength = getStrength(form.password), as the dialog renders it
strength == getStrength(page.password)

InitStrength ==
    /\ token = ValidToken
    /\ auth  = authInitialState
    /\ route = UsersRoute
    /\ files = filesSliceState
    /\ users = usersInitialState
    /\ maps  = mapsInitialState
    /\ page  = pageInitialState
    /\ store = SeedStore
    /\ net = <<>>
    /\ dispatched = 0
    /\ assigned = [c \in {"files", "users", "presets"} |-> Ids(store[c])]
    /\ last = Step("none", "init")

NextStrength ==
    \/ OnAddUser
    \/ \E ch \in PasswordKeys : TypePassword(ch)
    \/ ErasePassword

SpecStrength == InitStrength /\ [][NextStrength]_vars

----------------------------------------------------------------------------
(* Vocabulary of the properties.  A step is recognised from the requests   *)
(* in flight: a dispatch appends one, the Remote Store's answer marks one  *)
(* done, a settlement removes one.                                         *)

Dispatched(thunk) ==
    /\ Len(net') = Len(net) + 1
    /\ net'[Len(net')].thunk = thunk

Answered(i) ==
    /\ Len(net') = Len(net)
    /\ net[i].st = "sent"
    /\ net'[i].st = "done"
    /\ net'[i].res.status = 200

\* the handler that awaited a call of this thunk goes on after it
Continued(thunk) ==
    /\ page.awaiting # NullRef
    /\ page'.awaiting = NullRef
    /\ page.awaiting[1].thunk = thunk

\* the call the waiting handler made
awaited == page.awaiting[1]

Settled(i) ==
    /\ net[i].st = "done"
    /\ Len(net') = Len(net) - 1
    /\ \A j \in 1..Len(net') : net'[j].requestId # net[i].requestId

Succeeded(i) == net[i].res.status = 200

\* position of the first record with this id, 0 when there is none
firstWithId(list, id) ==
    IF \E k \in 1..Len(list) : list[k].id = id
    THEN CHOOSE k \in 1..Len(list) :
            /\ list[k].id = id
            /\ \A j \in 1..(k - 1) : list[j].id # id
    ELSE 0

\* the fields of p laid over those of old
Merged(old, p) ==
    [f \in (DOMAIN old) \cup (DOMAIN p) |-> IF f \in DOMAIN p THEN p[f] ELSE old[f]]

sliceOf(st, thunk) ==
    IF collectionOf(thunk) = "files" THEN st.files
    ELSE IF collectionOf(thunk) = "users" THEN st.users
    ELSE st.maps

IsMessage(e) == e \notin {Null, Undefined}

CachesUnchanged ==
    /\ files'.list = files.list
    /\ users'.list = users.list
    /\ maps'.customItems = maps.customItems
    /\ maps'.markers = maps.markers
    /\ maps'.geoData = maps.geoData

----------------------------------------------------------------------------
\* C1: when create / update / delete calls are made one at a time and every
\* one of them has resolved, the files cache and the users cache hold exactly
\* the records, in the order, that a fetchAll of the Remote Store would
\* return at that moment.
C1_ReconciliationFidelity ==
    Quiet =>
        /\ files.list = remoteStore(store, "files/fetchFiles", Undefined, ValidToken).res.data
        /\ users.list = remoteStore(store, "users/fetchUsers", Undefined, ValidToken).res.data

\* a create, an update and a delete have resolved: user 2 was created and
\* edited, user 1 deleted
C1_Witness ==
    /\ Quiet
    /\ dispatched = 3
    /\ last = Step("users/deleteUser", "fulfilled")
    /\ Len(users.list) = 1
    /\ users.list[1].id = 2
    /\ users.list[1].name \in {"bob", "cy"}

\* C2: no record enters or leaves a cache before the server has answered:
\* a step that does not settle a call leaves every cached list as it is, and
\* dispatching a create changes nothing but the slice's saving and error.
C2_NoOptimisticInsert ==
    [][ /\ Len(net') >= Len(net) => CachesUnchanged
        /\ Dispatched("files/uploadFile") =>
              /\ files' = [files EXCEPT !.saving = TRUE, !.error = Null]
              /\ users' = users /\ maps' = maps
        /\ Dispatched("users/createUser") =>
              /\ users' = [users EXCEPT !.saving = TRUE, !.error = Null]
              /\ files' = files /\ maps' = maps
        /\ Dispatched("maps/addPreset") =>
              /\ files' = files /\ users' = users /\ maps' = maps
      ]_vars

\* the Remote Store has stored the uploaded file, the call has not settled,
\* and the cache does not yet show the record
C2_Witness ==
    \E i \in 1..Len(net) :
        /\ net[i].thunk = "files/uploadFile"
        /\ net[i].st = "done"
        /\ net[i].res.status = 200
        /\ files.saving
        /\ net[i].res.data.id \in Ids(store.files)
        /\ net[i].res.data.id \notin Ids(files.list)

\* C3: a call that settles as a failure (Unauthorized, NotFound, no
\* response) leaves every cached list as it was; in particular a delete
\* answered NotFound removes nothing.
C3_FailureLeavesCacheUnchanged ==
    [][ \A i \in 1..Len(net) :
            (Settled(i) /\ ~Succeeded(i)) => CachesUnchanged ]_vars

\* a delete was answered NotFound and the slice recorded it
C3_Witness ==
    /\ last = Step("files/deleteFile", "rejected")
    /\ files.error = "{\"detail\":\"Not found\"}"
    /\ ~files.saving

\* C4: after any call has been rejected, the error field of its slice holds
\* a message (neither null nor undefined).
C4_EveryFailureRecorded ==
    last.phase = "rejected" => IsMessage(sliceOf(state, last.thunk).error)

FetchAllThunks ==
    {"files/fetchFiles", "users/fetchUsers", "maps/fetchCustomMap",
     "maps/fetchHistoryMarkers", "maps/fetchGeoJson"}

cacheOf(st, thunk) ==
    CASE thunk = "files/fetchFiles"         -> st.files.list
      [] thunk = "users/fetchUsers"         -> st.users.list
      [] thunk = "maps/fetchCustomMap"      -> st.maps.customItems
      [] thunk = "maps/fetchHistoryMarkers" -> st.maps.markers
      [] thunk = "maps/fetchGeoJson"        -> st.maps.geoData

loadingOf(st, thunk) ==
    CASE thunk = "files/fetchFiles"         -> st.files.loading
      [] thunk = "users/fetchUsers"         -> st.users.loading
      [] thunk = "maps/fetchCustomMap"      -> st.maps.customLoading
      [] thunk = "maps/fetchHistoryMarkers" -> st.maps.markersLoading
      [] thunk = "maps/fetchGeoJson"        -> st.maps.geoLoading

\* C5: a fetchAll sets loading and clears error when it is dispatched;
\* fulfilled, it replaces the whole cache by the returned list and clears
\* loading; rejected, it clears loading, sets error to a message and leaves
\* the cache untouched.
C5_FetchAllContract ==
    [][ \A t \in FetchAllThunks :
          /\ Dispatched(t) =>
                /\ loadingOf(state', t) = TRUE
                /\ sliceOf(state', t).error = Null
                /\ cacheOf(state', t) = cacheOf(state, t)
          /\ \A i \in 1..Len(net) :
                (Settled(i) /\ net[i].thunk = t) =>
                    IF Succeeded(i)
                    THEN /\ cacheOf(state', t) = net[i].res.data
                         /\ loadingOf(state', t) = FALSE
                    ELSE /\ loadingOf(state', t) = FALSE
                         /\ IsMessage(sliceOf(state', t).error)
                         /\ cacheOf(state', t) = cacheOf(state, t)
      ]_vars

----------------------------------------------------------------------------
\* C6 as stated: the id the Remote Store gives a new record is strictly
\* greater than every id it has ever assigned in that collection, the ids of
\* deleted records included.
C6_IdAboveEveryAssigned ==
    [][ \A i \in 1..Len(net) :
            (Answered(i) /\ verbOf(net[i].thunk) = "create") =>
                \A old \in assigned[collectionOf(net[i].thunk)] :
                    net'[i].res.data.id > old ]_vars

----------------------------------------------------------------------------
UpdateThunks == {"files/updateFile", "users/updateUser"}

----------------------------------------------------------------------------
DeleteThunks == {"files/deleteFile", "users/deleteUser"}

\* C8: dispatching a delete sets saving; when it is fulfilled every cached
\* record with the deleted id is gone, the others stay in their order, and
\* saving is cleared.
C8_DeleteFiltersCache ==
    [][ /\ \A t \in DeleteThunks :
              Dispatched(t) => sliceOf(state', t).saving = TRUE
        /\ \A i \in 1..Len(net) :
              (Settled(i) /\ Succeeded(i) /\ net[i].thunk \in DeleteThunks) =>
                  LET t == net[i].thunk
                  IN  /\ sliceOf(state', t).list =
                            SelectSeq(sliceOf(state, t).list, LAMBDA r : r.id # net[i].arg)
                      /\ sliceOf(state', t).saving = FALSE
      ]_vars

\* a user was deleted and another one is still listed
C8_Witness ==
    /\ last = Step("users/deleteUser", "fulfilled")
    /\ users.list # <<>>
    /\ Ids(users.list) = Ids(store.users)
    /\ 1 \notin Ids(users.list)

----------------------------------------------------------------------------
\* C9: when the fetch of one file is fulfilled, the returned record takes
\* the place of the cached record with that id; when the cache holds no such
\* record it is left as it is.  The length of the cache never changes.
C9_FetchOneReplacesInPlace ==
    [][ \A i \in 1..Len(net) :
            (Settled(i) /\ Succeeded(i) /\ net[i].thunk = "files/fetchFile") =>
                LET p == net[i].res.data
                    k == firstWithId(files.list, p.id)
                IN  /\ Len(files'.list) = Len(files.list)
                    /\ files'.list = IF k = 0 THEN files.list
                                     ELSE [files.list EXCEPT ![k] = p]
                    /\ files'.saving = files.saving
                    /\ files'.loading = files.loading
      ]_vars

\* the content of a listed file has been fetched into its cached record
C9_Witness ==
    /\ last = Step("files/fetchFile", "fulfilled")
    /\ \E k \in 1..Len(files.list) :
          /\ "content_base64" \in DOMAIN files.list[k]
          /\ files.list[k] \in {store.files[j] : j \in 1..Len(store.files)}

----------------------------------------------------------------------------
\* lexicographic order on names, by code unit; a proper prefix comes first
lexLess(a, b) ==
    \E n \in 0..Len(a) :
        /\ n <= Len(b)
        /\ \A j \in 1..n : a[j] = b[j]
        /\ \/ n = Len(a) /\ n < Len(b)
           \/ n < Len(a) /\ n < Len(b) /\ a[n + 1] < b[n + 1]

\* C10: the folder list holds exactly the non-empty folder values of the
\* cached records, each once, in ascending lexicographic order.
C10_FolderList ==
    LET fl == folders(files.list)
    IN  /\ {fl[k] : k \in 1..Len(fl)} =
              {files.list[k].folder : k \in 1..Len(files.list)} \ {<<>>}
        /\ \A j, k \in 1..Len(fl) : j < k => lexLess(fl[j], fl[k])

\* files in folders "b", "", "B" and "b" again are cached: the list is
\* "B", "b"
C10_Witness ==
    /\ Len(files.list) = 4
    /\ files.list[1].folder = <<98>>
    /\ files.list[2].folder = <<>>
    /\ files.list[3].folder = <<66>>
    /\ files.list[4].folder = <<98>>
    /\ folders(files.list) = <<<<66>>, <<98>>>>

----------------------------------------------------------------------------
\* two code units are the same letter, whatever their case
sameLetter(a, b) ==
    \/ a = b
    \/ a \in 65..90 /\ b = a + 32
    \/ b \in 65..90 /\ a = b + 32

containsIgnoringCase(str, q) ==
    \E k \in 0..(Len(str) - Len(q)) :
        \A j \in 1..Len(q) : sameLetter(str[k + j], q[j])

searchHit(f, q) ==
    \/ containsIgnoringCase(f.name, q)
    \/ \E i \in 1..Len(f.tags) : containsIgnoringCase(f.tags[i], q)
    \/ containsIgnoringCase(f.project, q)

shownFiles == filteredList(files.list, page.searchQuery, page.currentFolder)

\* C11: while the search text is not empty, the files shown are exactly the
\* cached records whose name, one of whose tags, or whose project contains
\* the search text, letter case ignored, in cache order, whichever folder is
\* selected.
C11_SearchSuspendsFolder ==
    page.searchQuery # <<>> =>
        shownFiles = SelectSeq(files.list, LAMBDA f : searchHit(f, page.searchQuery))

\* folder "b" is selected, "aB" is searched: the file "Ab" of folder "a" is
\* shown and a file of folder "b" is not
C11_Witness ==
    /\ page.searchQuery = <<97, 66>>
    /\ page.currentFolder = Ref(<<98>>)
    /\ \E i \in 1..Len(shownFiles) :
          shownFiles[i].folder = <<97>> /\ shownFiles[i].name = <<65, 98>>
    /\ \E i \in 1..Len(files.list) :
          /\ files.list[i].folder = <<98>>
          /\ \A k \in 1..Len(shownFiles) : shownFiles[k].id # files.list[i].id

\* C12: while the search text is empty, the files shown are all cached
\* records when the root node is selected, and exactly the records whose
\* folder is the selected folder's name when a folder node is selected.
C12_FolderView ==
    page.searchQuery = <<>> =>
        IF page.selectedItem = RootId
        THEN shownFiles = files.list
        ELSE LET name == SubSeq(page.selectedItem, Len(FolderPrefix) + 1, Len(page.selectedItem))
             IN  /\ SubSeq(page.selectedItem, 1, Len(FolderPrefix)) = FolderPrefix
                 /\ shownFiles = SelectSeq(files.list, LAMBDA f : f.folder = name)

\* files in folders "a", "b" and "" are cached and folder "a" is selected:
\* the first record alone is shown
C12_Witness ==
    /\ page.searchQuery = <<>>
    /\ page.selectedItem = FolderPrefix \o <<97>>
    /\ Len(files.list) = 3
    /\ files.list[1].folder = <<97>>
    /\ files.list[2].folder = <<98>>
    /\ files.list[3].folder = <<>>
    /\ shownFiles = <<files.list[1]>>

----------------------------------------------------------------------------
(* Folder locks *)

lockSet(s) == {s.lockedFolders[i] : i \in 1..Len(s.lockedFolders)}

Toggled(s, n) == toggleFolderLock(s, [type |-> "files/toggleFolderLock", payload |-> n])

LockToggled == last'.thunk = "files/toggleFolderLock" /\ last'.phase = "ui"

\* C13: the locked-folder set starts empty; toggleFolderLock(name) adds name
\* if it is absent and removes it if present, changes the membership of no
\* other folder, and toggling the same folder twice restores the lock set.
C13_FolderLockToggling ==
    /\ files.lockedFolders = <<>>
    /\ [](\A n \in LockFolders :
            /\ lockSet(Toggled(files, n)) =
                 IF n \in lockSet(files) THEN lockSet(files) \ {n}
                                         ELSE lockSet(files) \cup {n}
            /\ lockSet(Toggled(Toggled(files, n), n)) = lockSet(files))
    /\ [][LockToggled =>
            \E n \in LockFolders :
                /\ (n \in lockSet(files')) # (n \in lockSet(files))
                /\ \A o \in LockFolders \ {n} :
                      (o \in lockSet(files')) = (o \in lockSet(files))]_vars

\* two folders in the tree, "b" locked, and "a" just unlocked again
C13_Witness ==
    /\ last.thunk = "files/toggleFolderLock"
    /\ Len(folders(files.list)) = 2
    /\ files.lockedFolders = << <<98>> >>
    /\ ~files.loading /\ net = <<>>

IsLocked(f) == f.folder # <<>> /\ f.folder \in lockSet(files)

CardThunks == {"files/updateFile", "files/deleteFile"}

\* C14: a file is locked iff its folder is non-empty and in the locked-folder
\* set; the Edit and Delete buttons of a shown file card of FileManager2 are
\* disabled iff its file is locked; the edit dialog opens only for a file
\* that is not locked, an update is dispatched only for the file the dialog
\* was opened for, and a delete only for a file that is not locked; a file
\* with empty folder is never locked.
C14_LockedFilesSuppressed ==
    /\ [](\A i \in 1..Len(files.list) : (route = FilesRoute /\ cardShown(i)) =>
            LET f    == files.list[i]
                card == FileCard(f, locked(f))
            IN  /\ card.editDisabled = IsLocked(f)
                /\ card.deleteDisabled = IsLocked(f)
                /\ f.folder = <<>> => ~card.editDisabled /\ ~card.deleteDisabled)
    /\ [][/\ (page.editTarget = NullRef /\ page'.editTarget # NullRef) =>
               \E k \in 1..Len(files.list) :
                  /\ files.list[k] = page'.editTarget[1]
                  /\ cardShown(k)
                  /\ ~IsLocked(files.list[k])
          /\ Dispatched("files/updateFile") =>
               /\ page.editTarget # NullRef
               /\ net'[Len(net')].arg.id = page.editTarget[1].id
          /\ Dispatched("files/deleteFile") =>
               LET k == firstWithId(files.list, net'[Len(net')].arg)
               IN  k # 0 /\ cardShown(k) /\ ~IsLocked(files.list[k])]_vars

\* "a" is locked and holds a file, and a delete was just dispatched for a
\* file of another folder
C14_Witness ==
    /\ route = FilesRoute
    /\ files.lockedFolders = << <<97>> >>
    /\ \E i \in 1..Len(files.list) : files.list[i].folder = <<97>>
    /\ last = Step("files/deleteFile", "pending")
    /\ Len(net) = 1
    /\ \E i \in 1..Len(files.list) :
          /\ files.list[i].id = net[1].arg
          /\ files.list[i].folder = <<98>>

\* what GET /files/ answers to the signed-in client
listFiles(st) == remoteStore(st, "files/fetchFiles", Undefined, ValidToken).res

\* C15: toggling a folder lock changes neither the Remote Store's file
\* collection nor the cached files list; listing files gives the same result
\* before and after.
C15_LockIsClientOnly ==
    [][LockToggled =>
          /\ store'.files = store.files
          /\ files'.list = files.list
          /\ listFiles(store') = listFiles(store)]_vars

\* a folder was just locked while the cache holds the store's files
C15_Witness ==
    /\ last.thunk = "files/toggleFolderLock"
    /\ files.lockedFolders # <<>>
    /\ Len(files.list) = MaxFiles
    /\ listFiles(store).status = 200
    /\ Ids(listFiles(store).data) = Ids(files.list)

\* C16: lock state does not follow data: only the lock button changes the
\* locked-folder set, so an update after which no record has folder f leaves
\* the set as it was (f, if locked, stays a member), and a record under its
\* new folder name is locked only if that name is itself in the set.
C16_LockDoesNotFollowData ==
    /\ [][~LockToggled => lockSet(files') = lockSet(files)]_vars
    /\ [][\A i \in 1..Len(net) :
            (Settled(i) /\ net[i].thunk = "files/updateFile") =>
               /\ files'.lockedFolders = files.lockedFolders
               /\ \A k \in 1..Len(files'.list) :
                     locked(files.list[k])' =
                        (/\ files'.list[k].folder # <<>>
                         /\ files'.list[k].folder \in lockSet(files))]_vars

\* the only file of "b" was moved to "a" while "b" was being locked: "b" is
\* still locked, no record is in "b", and the moved record is not locked
C16_Witness ==
    /\ last = Step("files/updateFile", "fulfilled")
    /\ files.lockedFolders = << <<98>> >>
    /\ Len(files.list) > 0
    /\ \A k \in 1..Len(files.list) : files.list[k].folder = <<97>> /\ ~locked(files.list[k])
    /\ \A k \in 1..Len(store.files) : store.files[k].folder = <<97>>

----------------------------------------------------------------------------
(* The upload queue *)

uploadsInFlight == {i \in 1..Len(net) : net[i].thunk = "files/uploadFile"}

\* C17: the upload flow processes one queued file at a time: at most one
\* uploadFile call is in flight at any moment, and, unless the user cancels
\* it, the queue head gives way to the next file only when the handler that
\* awaited the create call made for that head goes on after it has settled.
C17_OneUploadAtATime ==
    /\ [](Cardinality(uploadsInFlight) <= 1)
    /\ [][(page.queue # <<>> /\ page'.queue = Tail(page.queue) /\ last'.thunk # "onCancel") =>
            /\ Continued("files/uploadFile")
            /\ awaited.arg.name = page.queue[1]]_vars

----------------------------------------------------------------------------
(* Drawn and saved shapes *)

\* what GET /maps/shapes answers to the signed-in client
listShapes(st) == remoteStore(st, "maps/fetchShapes", Undefined, ValidToken).res.data

\* C18 as stated: once the save has resolved, savedShapes equals the stored
\* collection.
C18_SaveAccumulates ==
    [][\A i \in 1..Len(net) :
          /\ (Answered(i) /\ net[i].thunk = "maps/saveShapes") =>
                LET m == Len(store.shapes)
                    n == Len(net[i].arg)
                IN  /\ Len(listShapes(store')) = m + n
                    /\ SubSeq(listShapes(store'), 1, m) = store.shapes
                    /\ \A k \in 1..n :
                          Omit(store'.shapes[m + k], "id") = Omit(net[i].arg[k], "id")
          /\ (Settled(i) /\ net[i].thunk = "maps/saveShapes" /\ Succeeded(i)) =>
                maps'.savedShapes = store'.shapes]_vars

\* C19: after a successful save the page's drawn-shape list and the Redux
\* drawnShapes buffer are both empty; after a failed save both are as they
\* were and the error is recorded.
C19_SaveClearsBuffer ==
    [][/\ \A i \in 1..Len(net) :
            (Settled(i) /\ net[i].thunk = "maps/saveShapes" /\ ~Succeeded(i)) =>
               /\ page'.shapes = page.shapes
               /\ maps'.drawnShapes = maps.drawnShapes
               /\ IsMessage(maps'.error)
               /\ maps'.error = (IF net[i].res.status = 0 THEN "Failed to save shapes"
                                 ELSE net[i].res.data)
       /\ Continued("maps/saveShapes") =>
            IF awaited.phase = "fulfilled"
            THEN /\ page'.shapes = <<>>
                 /\ maps'.drawnShapes = <<>>
            ELSE /\ page'.shapes = page.shapes
                 /\ maps'.drawnShapes = maps.drawnShapes]_vars

\* a save of two drawn shapes has just failed: both are still in both lists
C19_Witness ==
    /\ last = Step("maps/saveShapes", "rejected")
    /\ Len(page.shapes) = 2
    /\ Ids(maps.drawnShapes) = Ids(page.shapes)
    /\ maps.error = "Failed to save shapes"
    /\ ~maps.shapesSaving

----------------------------------------------------------------------------
(* Auth Gate *)

Handled(i) ==
    /\ Len(net') = Len(net)
    /\ net[i].st = "sent"
    /\ net'[i].st = "done"
    /\ last'.phase = "handled"

Matches(c, form) == c.email = form.email /\ c.password = form.password

\* signature valid and expiry not reached at hour t
TokenGood(tok, t) == tok.sig = Secret /\ t < tok.exp

\* C20: a login with matching email and password is answered with a token
\* that embeds that user's id and is good for exactly the 24 hours after its
\* issue; a login with a mismatch fails and the client's token stays as it
\* was.  Any other operation succeeds only with a token whose signature is
\* valid and whose expiry is not reached (GET /users/me then answers with the
\* embedded user); otherwise it is answered 401 and the Remote Store is left
\* as it was.
C20_AuthGate ==
    [][\A i \in 1..Len(net) :
          /\ (Handled(i) /\ net[i].thunk = "auth/signIn") =>
                IF \E c \in Credentials : Matches(c, net[i].arg)
                THEN /\ net'[i].res.status = 200
                     /\ \E c \in Credentials :
                           /\ Matches(c, net[i].arg)
                           /\ net'[i].res.data.access_token.sub = c.id
                     /\ \A t \in store.now..(store.now + 2 * TokenLife) :
                           TokenGood(net'[i].res.data.access_token, t)
                              = (t < store.now + TokenLife)
                ELSE net'[i].res.status = 401
          /\ (Handled(i) /\ net[i].thunk # "auth/signIn") =>
                IF TokenGood(net[i].token, store.now)
                THEN (net[i].thunk = "auth/fetchCurrentUser" /\ net'[i].res.status = 200)
                        => net'[i].res.data.id = net[i].token.sub
                ELSE /\ net'[i].res.status = 401
                     /\ store' = store
          /\ (Settled(i) /\ net[i].thunk = "auth/signIn" /\ ~Succeeded(i)) =>
                token' = token]_vars

\* the editor signed in at hour 12; at hour 36 the token has run out and a
\* call carrying it has just been refused
C20_Witness ==
    /\ last.phase = "handled"
    /\ Len(net) = 1
    /\ net[1].thunk # "auth/signIn"
    /\ net[1].token = Token(2, 36, Secret)
    /\ store.now = 36
    /\ net[1].res.status = 401
    /\ token = net[1].token
----------------------------------------------------------------------------
(* Unauthorized at the presentation layer *)

\* The client holds a token the Auth Gate refuses (run out, or signed with
\* another key) and a protected page is open.  What runs without the user
\* is fair: the pages' fetch effects, the Remote Store's answer, the thunk's
\* settlement.  The user may navigate, and may never do so.
InitGate ==
    /\ token \in {ExpiredToken, ForgedToken}
    /\ auth  = authInitialState
    /\ route \in {UsersRoute, FileManagerRoute}
    /\ files = filesSliceState
    /\ users = usersInitialState
    /\ maps  = mapsInitialState
    /\ page  = pageInitialState
    /\ store = AuthStore
    /\ net = <<>>
    /\ dispatched = 0
    /\ assigned = [c \in {"files", "users", "presets"} |-> Ids(store[c])]
    /\ last = Step("none", "init")

GateEffects ==
    \/ FetchUsersEffect
    \/ FetchFilesEffect
    \/ FetchCurrentUserEffect

NextGate ==
    \/ GateEffects
    \/ \E r \in {SignInRoute, UsersRoute, FileManagerRoute} : NavigateTo(r)
    \/ \E i \in 1..MaxInflight : RemoteStoreHandles(i)
    \/ \E i \in 1..MaxInflight : ThunkSettles(i)

SpecGate ==
    /\ InitGate /\ [][NextGate]_vars
    /\ WF_vars(GateEffects)
    /\ \A i \in 1..MaxInflight :
          WF_vars(RemoteStoreHandles(i)) /\ WF_vars(ThunkSettles(i))

\* a call other than the login has been answered 401 by the Auth Gate
Unauthorized ==
    \E i \in 1..Len(net) :
        /\ net[i].thunk # "auth/signIn"
        /\ net[i].st = "done"
        /\ net[i].res.status = 401

\* C21: whenever an operation fails because the token is missing, expired or
\* invalid, the sign-in route is eventually shown instead of the protected
\* page; the slice only records the error string (token and caches stay).
C21_UnauthorizedRedirects ==
    /\ Unauthorized ~> (route = SignInRoute)
    /\ [][\A i \in 1..Len(net) :
            (Settled(i) /\ net[i].res.status = 401 /\ net[i].thunk = "users/fetchUsers") =>
                /\ users' = [users EXCEPT !.loading = FALSE, !.error = net[i].res.data]
                /\ token' = token
                /\ route' = route
                /\ files' = files /\ maps' = maps /\ auth' = auth]_vars

----------------------------------------------------------------------------
(* Password strength *)

\* the criteria a password satisfies
Satisfied(pw) ==
    {c \in {"length", "uppercase", "digit", "symbol"} :
        \/ c = "length"    /\ Len(pw) >= 8
        \/ c = "uppercase" /\ \E i \in 1..Len(pw) : pw[i] \in 65..90
        \/ c = "digit"     /\ \E i \in 1..Len(pw) : pw[i] \in 48..57
        \/ c = "symbol"    /\ \E i \in 1..Len(pw) :
                                 ~(pw[i] \in 65..90 \/ pw[i] \in 97..122 \/ pw[i] \in 48..57)}

LabelOf(score) ==
    CASE score = 1 -> "Weak" [] score = 2 -> "Fair" [] score = 3 -> "Good" [] score = 4 -> "Strong"

\* C22 as stated: every non-empty password is scored from 1 to 4, the number
\* of criteria it satisfies, and labelled for that score; the empty password
\* gets score 0 and the empty label.
C22_ScoreFromOneToFour ==
    IF page.password = <<>>
    THEN strength.score = 0 /\ strength.label = ""
    ELSE /\ strength.score \in 1..4
         /\ strength.score = Cardinality(Satisfied(page.password))
         /\ strength.label = LabelOf(strength.score)

----------------------------------------------------------------------------
(* The flags *)

\* at least one call of one of these thunks is in flight
InFlight(thunks) == \E i \in 1..Len(net) : net[i].thunk \in thunks

FileMutations == {"files/uploadFile", "files/updateFile", "files/deleteFile"}
UserMutations == {"users/createUser", "users/updateUser", "users/deleteUser"}

\* C23: in every reachable state saving is true iff at least one create /
\* update / delete of the slice is in flight, and loading is true iff at
\* least one bulk fetch of the slice is in flight, also while two calls of a
\* slice overlap and one of them has resolved.
C23_FlagMeaning ==
    /\ files.saving = InFlight(FileMutations)
    /\ files.loading = InFlight({"files/fetchFiles"})
    /\ users.saving = InFlight(UserMutations)
    /\ users.loading = InFlight({"users/fetchUsers"})
    /\ maps.customLoading = InFlight({"maps/fetchCustomMap"})
    /\ maps.markersLoading = InFlight({"maps/fetchHistoryMarkers"})
    /\ maps.geoLoading = InFlight({"maps/fetchGeoJson"})
    /\ maps.shapesSaving = InFlight({"maps/saveShapes"})
    /\ maps.shapesLoading = InFlight({"maps/fetchShapes"})

----------------------------------------------------------------------------
(* Overlapping fetches *)

requestIds(q) == {q[i].requestId : i \in 1..Len(q)}

BulkFetches == {"files/fetchFiles", "users/fetchUsers", "maps/fetchCustomMap", "maps/fetchShapes"}

fetchedList(st, t) ==
    CASE t = "files/fetchFiles"    -> st.files.list
      [] t = "users/fetchUsers"    -> st.users.list
      [] t = "maps/fetchCustomMap" -> st.maps.customItems
      [] t = "maps/fetchShapes"    -> st.maps.savedShapes

fetchFlag(st, t) ==
    CASE t = "files/fetchFiles"    -> st.files.loading
      [] t = "users/fetchUsers"    -> st.users.loading
      [] t = "maps/fetchCustomMap" -> st.maps.customLoading
      [] t = "maps/fetchShapes"    -> st.maps.shapesLoading

\* C24: a fetchAll dispatched while another of the same slice is in flight
\* is sent as a call of its own, and every call stays in flight until its
\* own response is processed; the response processed replaces the cache by
\* its list whatever was issued or processed before (a failed one leaves the
\* cache), so once both have resolved the cache is the list of the response
\* processed last; with no fetchAll in flight loading is false.
C24_LastResponseWins ==
    /\ [](\A t \in BulkFetches : ~InFlightNow(t) => ~fetchFlag(state, t))
    /\ [][/\ \A t \in BulkFetches :
                Dispatched(t) =>
                    /\ requestIds(net') = requestIds(net) \cup {dispatched'}
                    /\ dispatched' \notin requestIds(net)
          /\ \A i \in 1..Len(net) :
                (Settled(i) /\ net[i].thunk \in BulkFetches) =>
                    /\ requestIds(net') = requestIds(net) \ {net[i].requestId}
                    /\ fetchedList(state', net[i].thunk) =
                          IF Succeeded(i) THEN net[i].res.data
                          ELSE fetchedList(state, net[i].thunk)]_vars

\* two fetchShapes calls overlap, a save between their answers: the call
\* issued last has just been processed and the cache shows the store; the
\* call issued first, answered before the save, is still to be processed
C24_Witness ==
    /\ last = Step("maps/fetchShapes", "fulfilled")
    /\ dispatched = 3
    /\ Len(net) = 1
    /\ net[1].thunk = "maps/fetchShapes"
    /\ net[1].requestId = 1
    /\ net[1].st = "done"
    /\ net[1].res.status = 200
    /\ Len(net[1].res.data) < Len(store.shapes)
    /\ maps.savedShapes = store.shapes


----------------------------------------------------------------------------
(* Mutations issued from the pages. *)

\* the record a mutation in flight is about: the id in its path
targetOf(r) == pathId(r.thunk, r.arg)

\* C25: a create, update or delete is dispatched from the pages (user table
\* save and delete, file card delete, file edit, file upload) only while the
\* slice's saving flag is false, so two mutations of the same id are never
\* in flight together.
C25_MutationsWaitForSaving ==
    /\ [](\A i, j \in 1..Len(net) :
            (/\ i < j
             /\ verbOf(net[i].thunk) \in {"update", "delete"}
             /\ verbOf(net[j].thunk) \in {"update", "delete"}
             /\ collectionOf(net[i].thunk) = collectionOf(net[j].thunk)
             /\ collectionOf(net[i].thunk) \in {"files", "users"}) =>
                targetOf(net[i]) # targetOf(net[j]))
    /\ [][/\ (\E t \in FileMutations : Dispatched(t)) => ~files.saving
          /\ (\E t \in UserMutations : Dispatched(t)) => ~users.saving]_vars

----------------------------------------------------------------------------
(* Ids in the caches. *)

distinctIds(list) == \A i, j \in 1..Len(list) : list[i].id = list[j].id => i = j

\* C26: in every reachable state, whatever the order of dispatches and
\* responses, no slice list (users, files, presets, saved shapes) holds two
\* records with the same id.
C26_CacheIdsUnique ==
    /\ distinctIds(users.list)
    /\ distinctIds(files.list)
    /\ distinctIds(maps.customItems)
    /\ distinctIds(maps.savedShapes)

----------------------------------------------------------------------------
(* Signing out. *)

SignedOut == token = NoToken /\ auth.user = NoUser

\* C27: signOut leaves auth.token and auth.user null and the persisted token
\* removed, and they stay null until a signIn dispatched after the signOut
\* succeeds: a response to a signIn, fetchCurrentUser or updateProfile call
\* that was in flight at the signOut restores neither the token nor the user.
C27_SignOutIsFinal ==
    /\ [](token = NoToken => auth.user = NoUser)
    /\ [][/\ last'.thunk = "auth/signOut" => SignedOut'
          /\ SignedOut =>
                \/ SignedOut'
                \/ \E i \in 1..Len(net) :
                      /\ Settled(i) /\ Succeeded(i)
                      /\ net[i].thunk = "auth/signIn"
                      /\ net[i].token = NoToken]_vars

----------------------------------------------------------------------------
(* One upload for each queued file. *)

\* the FileReaders started and the uploadFile calls in flight for a file
attemptsFor(name) ==
    Cardinality({j \in 1..Len(page.readers) : page.readers[j].file = name})
        + Cardinality({i \in uploadsInFlight : net[i].arg.name = name})

\* C28: each queued file is uploaded at most once: confirming the dialog
\* again for the same queue head while the file is still being read (saving
\* not yet true) gives at most one uploadFile call for that file, and a
\* settled call takes at most the file it was made for off the queue.
C28_UploadedAtMostOnce ==
    /\ [](page.queue # <<>> => attemptsFor(page.queue[1]) <= 1)
    /\ [][Continued("files/uploadFile") =>
                \/ page'.queue = page.queue
                \/ /\ page.queue # <<>>
                   /\ page.queue[1] = awaited.arg.name
                   /\ page'.queue = Tail(page.queue)]_vars

----------------------------------------------------------------------------
(* Shapes drawn while a save is in flight. *)

\* C29: a shape leaves the drawn-shape buffer only by explicit removal or as
\* part of the payload of a save that succeeded, so a shape drawn while a
\* saveShapes call is in flight is still in the buffer after that save
\* succeeds; the page's drawn-shape list and the Redux drawnShapes buffer
\* always hold the same set of shape ids.
C29_NoShapeLostBySave ==
    /\ [](Ids(page.shapes) = Ids(maps.drawnShapes))
    /\ [][\A id \in Ids(maps.drawnShapes) \cup Ids(page.shapes) :
            (id \notin Ids(maps'.drawnShapes) \/ id \notin Ids(page'.shapes)) =>
                \/ last' = Step("maps/removeDrawnShape", "ui")
                \/ /\ Continued("maps/saveShapes")
                   /\ awaited.phase = "fulfilled"
                   /\ id \in Ids(awaited.arg)]_vars

----------------------------------------------------------------------------
(* A failed upload. *)

\* C30: when the uploadFile call made for the queue head is rejected, the
\* file leaves the queue exactly as on success and the next queued file
\* becomes the head; the cache gains no record and error is set.
C30_FailedUploadAdvances ==
    [][/\ \A i \in 1..Len(net) :
            (/\ Settled(i) /\ ~Succeeded(i)
             /\ net[i].thunk = "files/uploadFile"
             /\ page.queue # <<>>
             /\ page.queue[1] = net[i].arg.name) =>
                  /\ files'.list = files.list
                  /\ ~files'.saving
                  /\ IsMessage(files'.error)
       /\ (/\ Continued("files/uploadFile")
           /\ awaited.phase = "rejected"
           /\ page.queue # <<>>
           /\ page.queue[1] = awaited.arg.name) =>
                  /\ page'.queue = Tail(page.queue)
                  /\ files'.list = files.list]_vars
====
